---- MODULE Spec2Model ----
(***************************************************************************)
(* Model of the redo crate's linear undo/redo engine (Record), of the      *)
(* Checkpoint and Queue wrappers that borrow it, of the RedoGroup of       *)
(* RedoStacks, and of the Checkpoint that borrows a History.               *)
(*                                                                         *)
(* A command is the Add(String) command of the crate's examples: apply     *)
(* appends its text to the receiver, undo removes as many characters from  *)
(* the end of the receiver.  A command starting with "b" is of the merging *)
(* variant (its merge appends the incoming text to itself), a command      *)
(* starting with "a" keeps the default merge, which never merges.          *)
(* Any call of a command's apply, undo or redo may return an error: the    *)
(* input f of an operation says which call of the operation fails.         *)
(***************************************************************************)
EXTENDS Integers, Sequences, FiniteSets, TLC

\* ---------------------------------------------------------------- bounds
\* longest text of the receiver and of a (merged) command
MaxRecv ==
  2
\* longest log
MaxLog ==
  MaxRecv + 1
\* largest limit given to the builder or to set_limit
MaxLimit ==
  2
\* most calls forwarded through Checkpoints while the outermost one is open
MaxStack ==
  2
\* the same where Checkpoints are only committed
MaxFw ==
  1
\* most actions staged in a Queue
MaxQueue ==
  2
\* most stacks ever added to a RedoGroup
MaxKeys ==
  2
\* deepest nesting of Checkpoints
MaxDepth ==
  2
\* most branch ids a History gives out, the first root included
MaxBranch ==
  3

\* ------------------------------------------------------------- constants
\* Option::None of `saved: Option<usize>`
None ==
  -1

Chars ==
  {"a", "b"}

\* the commands a caller can construct: Add("a"), Add("b")
Cmds ==
  {<<ch>> : ch \in Chars}

\* the commands that store the whole state of the receiver: JumpAdd(ch, state)
\* is <<"J", ch>> followed by the stored state, empty in a new command
JumpCmds ==
  {<<"J", ch>> : ch \in Chars}

VARIABLES
  commands,   \* the log: entries [s: text of the Add, on: ghost, "effect applied"]
  receiver,   \* the receiver, a String
  cursor,
  limit,
  saved,      \* None or the saved cursor
  signal,     \* TRUE iff a slot is connected
  emitted,    \* the signals the slot received during the last operation
  panicked,   \* TRUE once an operation has panicked (the program has aborted)
  wrappers,   \* the open Checkpoints, outermost first; each borrows the record
  last,       \* ghost: the last operation, its argument, result and pre-state
  run,        \* ghost: the current run of successful applies followed by undos
  group,      \* a RedoGroup: its stacks by key, the active key, the next key
  history,    \* a History around the record: the active branch's id (root),
              \* the next id, and the inactive branches by id
  redo_stack  \* a RedoStack on its own, both of its callbacks set; they write
              \* their names to `emitted`

vars ==
  <<commands, receiver, cursor, limit, saved, signal, emitted, panicked,
    wrappers, last, run, group, history, redo_stack>>

\* the fields of the Record as one value
Rec ==
  [commands |-> commands, receiver |-> receiver, cursor |-> cursor,
   limit |-> limit, saved |-> saved, signal |-> signal,
   emitted |-> emitted, panicked |-> panicked]

\* ------------------------------------------------------------- commands
\* the command is a JumpAdd
StoresState(cmd) ==
  Head(cmd) = "J"

\* the state a JumpAdd stored
StoredState(cmd) ==
  SubSeq(cmd, 3, Len(cmd))

\* Add::apply: s.push_str(&self.0); JumpAdd::apply: s.push(self.0)
CmdApply(cmd, recv) ==
  IF StoresState(cmd) THEN recv \o <<cmd[2]>> ELSE recv \o cmd

\* the command after its apply: JumpAdd::apply begins with self.1 = s.clone()
CmdApplied(cmd, recv) ==
  IF StoresState(cmd) THEN <<"J", cmd[2]>> \o recv ELSE cmd

\* Add::undo can restore the receiver only if the text is there to remove;
\* JumpAdd::undo always can
CmdCanUndo(cmd, recv) ==
  StoresState(cmd) \/ Len(recv) >= Len(cmd)

\* Add::undo: s.truncate(s.len() - self.0.len()); JumpAdd::undo:
\* *s = self.1.clone()
CmdUndo(cmd, recv) ==
  IF StoresState(cmd) THEN StoredState(cmd)
  ELSE SubSeq(recv, 1, Len(recv) - Len(cmd))

\* Command::redo defaults to apply; JumpAdd::redo: *s = self.1.clone();
\* s.push(self.0)
CmdRedo(cmd, recv) ==
  IF StoresState(cmd) THEN StoredState(cmd) \o <<cmd[2]>>
  ELSE CmdApply(cmd, recv)

\* Command::merge: TRUE iff `last` absorbs `cmd` (Ok(()) of last.merge(cmd))
CmdMerges(lastCmd, cmd) ==
  Head(lastCmd) = "b" /\ Head(cmd) = "b"

\* the text of `last` after it absorbed `cmd`
CmdMerged(lastCmd, cmd) ==
  lastCmd \o cmd

\* ------------------------------------------------------------- Record
If(c, sig) ==
  IF c THEN <<sig>> ELSE <<>>

SigUndo(b) ==
  [t |-> "Undo", b |-> b]

SigRedo(b) ==
  [t |-> "Redo", b |-> b]

SigSaved(b) ==
  [t |-> "Saved", b |-> b]

SigCursor(old, new) ==
  [t |-> "Cursor", old |-> old, new |-> new]

\* `if let Some(ref mut f) = self.signal { f(..) }`
Emit(r, sigs) ==
  IF r.signal THEN [r EXCEPT !.emitted = @ \o sigs] ELSE r

len(r) ==
  Len(r.commands)

can_undo(r) ==
  r.cursor > 0

can_redo(r) ==
  r.cursor < len(r)

is_saved(r) ==
  r.saved # None /\ r.saved = r.cursor

\* Option::checked_sub on the saved cursor
checked_sub(s, k) ==
  IF s # None /\ s >= k THEN s - k ELSE None

\* VecDeque::remove(i), i counted from 0
RemoveAt(q, i) ==
  SubSeq(q, 1, i) \o SubSeq(q, i + 2, Len(q))

\* the result of an operation: the record after it, what it returned, the
\* number of command calls made so far, and for apply the discarded tail
Ret(r, res, n) ==
  [rec |-> r, res |-> res, n |-> n, v |-> <<>>, merged |-> FALSE]

Panic(r, n) ==
  Ret([r EXCEPT !.panicked = TRUE], "Panic", n)

\* the call number n+1 of a command returns Err iff f = n+1 (f = 0: no call fails)
Fails(n, f) ==
  f = n + 1

\* set_limit that drops the oldest entries without shifting the cursor
set_limit_unshifted(r, lim) ==
  IF lim < len(r)
  THEN LET begin == IF r.cursor < len(r) - lim THEN r.cursor ELSE len(r) - lim
           cmds == SubSeq(r.commands, begin + 1, len(r))
       IN [r EXCEPT !.commands = cmds,
                    !.limit = Len(cmds),
                    !.saved = checked_sub(r.saved, begin)]
  ELSE [r EXCEPT !.limit = lim]

\* set_limit that always drops down to the limit, whatever the cursor
set_limit_front(r, lim) ==
  IF lim < len(r)
  THEN LET begin == len(r) - lim
           cmds == SubSeq(r.commands, begin + 1, len(r))
       IN [r EXCEPT !.commands = cmds,
                    !.limit = Len(cmds),
                    !.cursor = IF r.cursor < begin THEN 0 ELSE r.cursor - begin,
                    !.saved = checked_sub(r.saved, begin)]
  ELSE [r EXCEPT !.limit = lim]

\* set_limit that records the requested limit whatever is left in the log
set_limit_as_asked(r, lim) ==
  IF lim < len(r)
  THEN LET begin == IF r.cursor < len(r) - lim THEN r.cursor ELSE len(r) - lim
           cmds == SubSeq(r.commands, begin + 1, len(r))
       IN [r EXCEPT !.commands = cmds,
                    !.limit = lim,
                    !.cursor = r.cursor - begin,
                    !.saved = checked_sub(r.saved, begin)]
  ELSE [r EXCEPT !.limit = lim]

set_limit(r, lim) ==
  IF lim < len(r)
  THEN LET old == r.cursor
           could_undo == can_undo(r)
           was_saved == is_saved(r)
           begin == IF r.cursor < len(r) - lim THEN r.cursor ELSE len(r) - lim
           cmds == SubSeq(r.commands, begin + 1, len(r))
           r1 == [r EXCEPT !.commands = cmds,
                           !.limit = Len(cmds),
                           !.cursor = r.cursor - begin,
                           !.saved = checked_sub(r.saved, begin)]
           new == r1.cursor
       IN Emit(r1, If(old # new, SigCursor(old, new))
                   \o If(could_undo # can_undo(r1), SigUndo(can_undo(r1)))
                   \o If(was_saved # is_saved(r1), SigSaved(is_saved(r1))))
  ELSE [r EXCEPT !.limit = lim]

set_signal(r) ==
  [r EXCEPT !.signal = TRUE]

set_saved(r, b) ==
  LET was_saved == is_saved(r)
  IN IF b
     THEN Emit([r EXCEPT !.saved = r.cursor], If(~was_saved, SigSaved(TRUE)))
     ELSE Emit([r EXCEPT !.saved = None], If(was_saved, SigSaved(FALSE)))

clear(r) ==
  LET old == r.cursor
      could_undo == can_undo(r)
      could_redo == can_redo(r)
      r1 == [r EXCEPT !.commands = <<>>,
                      !.saved = IF is_saved(r) THEN 0 ELSE None,
                      !.cursor = 0]
  IN Emit(r1, If(old # 0, SigCursor(old, 0))
              \o If(could_undo, SigUndo(FALSE))
              \o If(could_redo, SigRedo(FALSE)))

\* __apply that never evicts the oldest entry
__apply_unbounded(r, cmd, n, f) ==
  IF Fails(n, f) THEN Ret(r, "Err", n + 1)
  ELSE
  LET r0 == [r EXCEPT !.receiver = CmdApply(cmd, r.receiver)]
      old == r.cursor
      could_undo == can_undo(r)
      could_redo == can_redo(r)
      was_saved == is_saved(r)
  IN
  IF r.cursor > len(r) THEN Panic(r0, n + 1)
  ELSE
  LET v == SubSeq(r.commands, r.cursor + 1, len(r))
      cmds1 == SubSeq(r.commands, 1, r.cursor)
      saved1 == IF r.saved # None /\ r.saved <= r.cursor THEN r.saved ELSE None
      merged == cmds1 # <<>> /\ ~was_saved /\ CmdMerges(cmds1[Len(cmds1)].s, cmd)
      cmds2 == IF merged
               THEN [cmds1 EXCEPT ![Len(cmds1)].s = CmdMerged(@, cmd)]
               ELSE cmds1
      full == FALSE
      cmds3 == IF merged THEN cmds2
               ELSE (IF full THEN Tail(cmds2) ELSE cmds2)
                    \o <<[s |-> CmdApplied(cmd, r.receiver), on |-> TRUE]>>
      saved2 == IF ~merged /\ full THEN checked_sub(saved1, 1) ELSE saved1
      cursor2 == IF ~merged /\ ~full THEN r.cursor + 1 ELSE r.cursor
      r1 == [r0 EXCEPT !.commands = cmds3, !.saved = saved2, !.cursor = cursor2]
  IN
  IF r1.cursor # len(r1) THEN Panic(r1, n + 1)
  ELSE [rec |-> Emit(r1, <<SigCursor(old, r1.cursor)>>
                         \o If(could_redo, SigRedo(FALSE))
                         \o If(~could_undo, SigUndo(TRUE))
                         \o If(was_saved, SigSaved(FALSE))),
        res |-> "Ok", n |-> n + 1, v |-> v, merged |-> merged]

\* __apply that never tries to merge
__apply_unmerged(r, cmd, n, f) ==
  IF Fails(n, f) THEN Ret(r, "Err", n + 1)
  ELSE
  LET r0 == [r EXCEPT !.receiver = CmdApply(cmd, r.receiver)]
      old == r.cursor
      could_undo == can_undo(r)
      could_redo == can_redo(r)
      was_saved == is_saved(r)
  IN
  IF r.cursor > len(r) THEN Panic(r0, n + 1)
  ELSE
  LET v == SubSeq(r.commands, r.cursor + 1, len(r))
      cmds1 == SubSeq(r.commands, 1, r.cursor)
      saved1 == IF r.saved # None /\ r.saved <= r.cursor THEN r.saved ELSE None
      merged == FALSE
      cmds2 == IF merged
               THEN [cmds1 EXCEPT ![Len(cmds1)].s = CmdMerged(@, cmd)]
               ELSE cmds1
      full == r.limit = r.cursor
      cmds3 == IF merged THEN cmds2
               ELSE (IF full THEN Tail(cmds2) ELSE cmds2)
                    \o <<[s |-> CmdApplied(cmd, r.receiver), on |-> TRUE]>>
      saved2 == IF ~merged /\ full THEN checked_sub(saved1, 1) ELSE saved1
      cursor2 == IF ~merged /\ ~full THEN r.cursor + 1 ELSE r.cursor
      r1 == [r0 EXCEPT !.commands = cmds3, !.saved = saved2, !.cursor = cursor2]
  IN
  IF r1.cursor # len(r1) THEN Panic(r1, n + 1)
  ELSE [rec |-> Emit(r1, <<SigCursor(old, r1.cursor)>>
                         \o If(could_redo, SigRedo(FALSE))
                         \o If(~could_undo, SigUndo(TRUE))
                         \o If(was_saved, SigSaved(FALSE))),
        res |-> "Ok", n |-> n + 1, v |-> v, merged |-> merged]

\* the sequence q, last element first
Reversed(q) ==
  [i \in 1..Len(q) |-> q[Len(q) + 1 - i]]

\* __apply that hands the discarded entries back last entry first
__apply_reversed(r, cmd, n, f) ==
  IF Fails(n, f) THEN Ret(r, "Err", n + 1)
  ELSE
  LET r0 == [r EXCEPT !.receiver = CmdApply(cmd, r.receiver)]
      old == r.cursor
      could_undo == can_undo(r)
      could_redo == can_redo(r)
      was_saved == is_saved(r)
  IN
  IF r.cursor > len(r) THEN Panic(r0, n + 1)
  ELSE
  LET v == SubSeq(r.commands, r.cursor + 1, len(r))
      cmds1 == SubSeq(r.commands, 1, r.cursor)
      saved1 == IF r.saved # None /\ r.saved <= r.cursor THEN r.saved ELSE None
      merged == cmds1 # <<>> /\ ~was_saved /\ CmdMerges(cmds1[Len(cmds1)].s, cmd)
      cmds2 == IF merged
               THEN [cmds1 EXCEPT ![Len(cmds1)].s = CmdMerged(@, cmd)]
               ELSE cmds1
      full == r.limit = r.cursor
      cmds3 == IF merged THEN cmds2
               ELSE (IF full THEN Tail(cmds2) ELSE cmds2)
                    \o <<[s |-> CmdApplied(cmd, r.receiver), on |-> TRUE]>>
      saved2 == IF ~merged /\ full THEN checked_sub(saved1, 1) ELSE saved1
      cursor2 == IF ~merged /\ ~full THEN r.cursor + 1 ELSE r.cursor
      r1 == [r0 EXCEPT !.commands = cmds3, !.saved = saved2, !.cursor = cursor2]
  IN
  IF r1.cursor # len(r1) THEN Panic(r1, n + 1)
  ELSE [rec |-> Emit(r1, <<SigCursor(old, r1.cursor)>>
                         \o If(could_redo, SigRedo(FALSE))
                         \o If(~could_undo, SigUndo(TRUE))
                         \o If(was_saved, SigSaved(FALSE))),
        res |-> "Ok", n |-> n + 1, v |-> Reversed(v), merged |-> merged]

\* __apply that evicts the oldest entry without shifting the saved marker
__apply_marker_kept(r, cmd, n, f) ==
  IF Fails(n, f) THEN Ret(r, "Err", n + 1)
  ELSE
  LET r0 == [r EXCEPT !.receiver = CmdApply(cmd, r.receiver)]
      old == r.cursor
      could_undo == can_undo(r)
      could_redo == can_redo(r)
      was_saved == is_saved(r)
  IN
  \* VecDeque::split_off panics when `at > len`
  IF r.cursor > len(r) THEN Panic(r0, n + 1)
  ELSE
  LET v == SubSeq(r.commands, r.cursor + 1, len(r))
      cmds1 == SubSeq(r.commands, 1, r.cursor)
      saved1 == IF r.saved # None /\ r.saved <= r.cursor THEN r.saved ELSE None
      merged == cmds1 # <<>> /\ ~was_saved /\ CmdMerges(cmds1[Len(cmds1)].s, cmd)
      cmds2 == IF merged
               THEN [cmds1 EXCEPT ![Len(cmds1)].s = CmdMerged(@, cmd)]
               ELSE cmds1
      full == r.limit = r.cursor
      cmds3 == IF merged THEN cmds2
               ELSE (IF full THEN Tail(cmds2) ELSE cmds2)
                    \o <<[s |-> CmdApplied(cmd, r.receiver), on |-> TRUE]>>
      saved2 == saved1
      cursor2 == IF ~merged /\ ~full THEN r.cursor + 1 ELSE r.cursor
      r1 == [r0 EXCEPT !.commands = cmds3, !.saved = saved2, !.cursor = cursor2]
  IN
  \* debug_assert_eq!(self.cursor, self.len())
  IF r1.cursor # len(r1) THEN Panic(r1, n + 1)
  ELSE [rec |-> Emit(r1, <<SigCursor(old, r1.cursor)>>
                         \o If(could_redo, SigRedo(FALSE))
                         \o If(~could_undo, SigUndo(TRUE))
                         \o If(was_saved, SigSaved(FALSE))),
        res |-> "Ok", n |-> n + 1, v |-> v, merged |-> merged]

\* __apply that tries to merge in the saved state too
__apply_across_saved(r, cmd, n, f) ==
  IF Fails(n, f) THEN Ret(r, "Err", n + 1)
  ELSE
  LET r0 == [r EXCEPT !.receiver = CmdApply(cmd, r.receiver)]
      old == r.cursor
      could_undo == can_undo(r)
      could_redo == can_redo(r)
      was_saved == is_saved(r)
  IN
  \* VecDeque::split_off panics when `at > len`
  IF r.cursor > len(r) THEN Panic(r0, n + 1)
  ELSE
  LET v == SubSeq(r.commands, r.cursor + 1, len(r))
      cmds1 == SubSeq(r.commands, 1, r.cursor)
      saved1 == IF r.saved # None /\ r.saved <= r.cursor THEN r.saved ELSE None
      merged == cmds1 # <<>> /\ CmdMerges(cmds1[Len(cmds1)].s, cmd)
      cmds2 == IF merged
               THEN [cmds1 EXCEPT ![Len(cmds1)].s = CmdMerged(@, cmd)]
               ELSE cmds1
      full == r.limit = r.cursor
      cmds3 == IF merged THEN cmds2
               ELSE (IF full THEN Tail(cmds2) ELSE cmds2)
                    \o <<[s |-> CmdApplied(cmd, r.receiver), on |-> TRUE]>>
      saved2 == IF ~merged /\ full THEN checked_sub(saved1, 1) ELSE saved1
      cursor2 == IF ~merged /\ ~full THEN r.cursor + 1 ELSE r.cursor
      r1 == [r0 EXCEPT !.commands = cmds3, !.saved = saved2, !.cursor = cursor2]
  IN
  \* debug_assert_eq!(self.cursor, self.len())
  IF r1.cursor # len(r1) THEN Panic(r1, n + 1)
  ELSE [rec |-> Emit(r1, <<SigCursor(old, r1.cursor)>>
                         \o If(could_redo, SigRedo(FALSE))
                         \o If(~could_undo, SigUndo(TRUE))
                         \o If(was_saved, SigSaved(FALSE))),
        res |-> "Ok", n |-> n + 1, v |-> v, merged |-> merged]

__apply(r, cmd, n, f) ==
  IF Fails(n, f) THEN Ret(r, "Err", n + 1)
  ELSE
  LET r0 == [r EXCEPT !.receiver = CmdApply(cmd, r.receiver)]
      old == r.cursor
      could_undo == can_undo(r)
      could_redo == can_redo(r)
      was_saved == is_saved(r)
  IN
  \* VecDeque::split_off panics when `at > len`
  IF r.cursor > len(r) THEN Panic(r0, n + 1)
  ELSE
  LET v == SubSeq(r.commands, r.cursor + 1, len(r))
      cmds1 == SubSeq(r.commands, 1, r.cursor)
      saved1 == IF r.saved # None /\ r.saved <= r.cursor THEN r.saved ELSE None
      merged == cmds1 # <<>> /\ ~was_saved /\ CmdMerges(cmds1[Len(cmds1)].s, cmd)
      cmds2 == IF merged
               THEN [cmds1 EXCEPT ![Len(cmds1)].s = CmdMerged(@, cmd)]
               ELSE cmds1
      full == r.limit = r.cursor
      cmds3 == IF merged THEN cmds2
               ELSE (IF full THEN Tail(cmds2) ELSE cmds2)
                    \o <<[s |-> CmdApplied(cmd, r.receiver), on |-> TRUE]>>
      saved2 == IF ~merged /\ full THEN checked_sub(saved1, 1) ELSE saved1
      cursor2 == IF ~merged /\ ~full THEN r.cursor + 1 ELSE r.cursor
      r1 == [r0 EXCEPT !.commands = cmds3, !.saved = saved2, !.cursor = cursor2]
  IN
  \* debug_assert_eq!(self.cursor, self.len())
  IF r1.cursor # len(r1) THEN Panic(r1, n + 1)
  ELSE [rec |-> Emit(r1, <<SigCursor(old, r1.cursor)>>
                         \o If(could_redo, SigRedo(FALSE))
                         \o If(~could_undo, SigUndo(TRUE))
                         \o If(was_saved, SigSaved(FALSE))),
        res |-> "Ok", n |-> n + 1, v |-> v, merged |-> merged]

\* undo that moves the cursor without calling the command's undo
undo_uncalled(r, n, f) ==
  IF ~can_undo(r) THEN Ret(r, "None", n)
  ELSE IF r.cursor - 1 >= len(r) THEN Panic(r, n)
  ELSE IF Fails(n, f) \/ ~CmdCanUndo(r.commands[r.cursor].s, r.receiver)
  THEN Ret([r EXCEPT !.commands = RemoveAt(@, r.cursor - 1)], "Err", n + 1)
  ELSE
  LET r1 == [r EXCEPT !.commands[r.cursor].on = FALSE,
                      !.cursor = r.cursor - 1]
  IN Ret(r1, "Ok", n + 1)

undo(r, n, f) ==
  IF ~can_undo(r) THEN Ret(r, "None", n)
  \* self.commands[self.cursor - 1] panics when the index is out of bounds
  ELSE IF r.cursor - 1 >= len(r) THEN Panic(r, n)
  ELSE IF Fails(n, f) \/ ~CmdCanUndo(r.commands[r.cursor].s, r.receiver)
  THEN Ret([r EXCEPT !.commands = RemoveAt(@, r.cursor - 1)], "Err", n + 1)
  ELSE
  LET was_saved == is_saved(r)
      old == r.cursor
      r1 == [r EXCEPT !.receiver = CmdUndo(r.commands[r.cursor].s, @),
                      !.commands[r.cursor].on = FALSE,
                      !.cursor = r.cursor - 1]
      ln == len(r1)
  IN Ret(Emit(r1, <<SigCursor(old, r1.cursor)>>
                  \o If(old = ln, SigRedo(TRUE))
                  \o If(old = 1, SigUndo(FALSE))
                  \o If(was_saved # is_saved(r1), SigSaved(is_saved(r1)))),
         "Ok", n + 1)

\* redo that steps over the entry whose redo failed instead of removing it
redo_skipped(r, n, f) ==
  IF ~can_redo(r) THEN Ret(r, "None", n)
  ELSE IF Fails(n, f)
  THEN Ret([r EXCEPT !.cursor = r.cursor + 1], "Err", n + 1)
  ELSE
  LET r1 == [r EXCEPT !.receiver = CmdRedo(r.commands[r.cursor + 1].s, @),
                      !.commands[r.cursor + 1].on = TRUE,
                      !.cursor = r.cursor + 1]
  IN Ret(r1, "Ok", n + 1)

redo(r, n, f) ==
  IF ~can_redo(r) THEN Ret(r, "None", n)
  ELSE IF Fails(n, f)
  THEN Ret([r EXCEPT !.commands = RemoveAt(@, r.cursor)], "Err", n + 1)
  ELSE
  LET was_saved == is_saved(r)
      old == r.cursor
      r1 == [r EXCEPT !.receiver = CmdRedo(r.commands[r.cursor + 1].s, @),
                      !.commands[r.cursor + 1].on = TRUE,
                      !.cursor = r.cursor + 1]
      ln == len(r1)
  IN Ret(Emit(r1, <<SigCursor(old, r1.cursor)>>
                  \o If(old = ln - 1, SigRedo(FALSE))
                  \o If(old = 0, SigUndo(TRUE))
                  \o If(was_saved # is_saved(r1), SigSaved(is_saved(r1)))),
         "Ok", n + 1)

\* the signals go_to emits after a completed walk
Aggregate(r, old, ln, was_saved, isRedo) ==
  If(old # r.cursor, SigCursor(old, r.cursor))
  \o If(was_saved # is_saved(r), SigSaved(is_saved(r)))
  \o (IF isRedo
      THEN If(old = ln - 1, SigRedo(FALSE)) \o If(old = 0, SigUndo(TRUE))
      ELSE If(old = ln, SigRedo(TRUE)) \o If(old = 1, SigUndo(FALSE)))

\* `while self.cursor != cursor { f(self).unwrap()? }`
RECURSIVE Walk(_, _, _, _, _)
Walk(r, target, isRedo, n, f) ==
  IF r.cursor = target THEN Ret(r, "Ok", n)
  ELSE LET s == IF isRedo THEN redo(r, n, f) ELSE undo(r, n, f)
       IN IF s.res = "Ok" THEN Walk(s.rec, target, isRedo, s.n, f)
          ELSE IF s.res = "None" THEN Panic(s.rec, s.n)
          ELSE s

\* go_to that leaves the slot connected while it walks
go_to_connected(r, target, n, f) ==
  IF target > len(r) THEN Ret(r, "None", n)
  ELSE
  LET was_saved == is_saved(r)
      old == r.cursor
      ln == len(r)
      isRedo == target > r.cursor
      w == Walk(r, target, isRedo, n, f)
      r1 == [w.rec EXCEPT !.signal = r.signal]
  IN IF w.res = "Ok"
     THEN Ret(Emit(r1, Aggregate(r1, old, ln, was_saved, isRedo)), "Ok", w.n)
     ELSE Ret(r1, w.res, w.n)

\* go_to that does not put the slot back when a step fails
go_to_unplugged(r, target, n, f) ==
  IF target > len(r) THEN Ret(r, "None", n)
  ELSE
  LET was_saved == is_saved(r)
      old == r.cursor
      ln == len(r)
      isRedo == target > r.cursor
      w == Walk([r EXCEPT !.signal = FALSE], target, isRedo, n, f)
      r1 == [w.rec EXCEPT !.signal = r.signal]
  IN IF w.res = "Ok"
     THEN Ret(Emit(r1, Aggregate(r1, old, ln, was_saved, isRedo)), "Ok", w.n)
     ELSE Ret(w.rec, w.res, w.n)

go_to(r, target, n, f) ==
  IF target > len(r) THEN Ret(r, "None", n)
  ELSE
  LET was_saved == is_saved(r)
      old == r.cursor
      ln == len(r)
      isRedo == target > r.cursor
      w == Walk([r EXCEPT !.signal = FALSE], target, isRedo, n, f)
      r1 == [w.rec EXCEPT !.signal = r.signal]
  IN IF w.res = "Ok"
     THEN Ret(Emit(r1, Aggregate(r1, old, ln, was_saved, isRedo)), "Ok", w.n)
     ELSE Ret(r1, w.res, w.n)

\* jump_to that looks for the command one place beyond the log
jump_to_beyond(r, target, n, f) ==
  IF target > len(r) + 1 THEN Ret(r, "None", n)
  ELSE IF target = r.cursor THEN Ret(r, "Ok", n)
  ELSE
  LET was_saved == is_saved(r)
      old == r.cursor
      ln == len(r)
      isRedo == target > r.cursor
      r0 == [r EXCEPT !.signal = FALSE,
                      !.cursor = IF isRedo THEN target - 1 ELSE target + 1]
      w == IF isRedo THEN redo(r0, n, f) ELSE undo(r0, n, f)
      r1 == [w.rec EXCEPT !.signal = r.signal]
  IN IF w.res = "Ok"
     THEN Ret(Emit(r1, Aggregate(r1, old, ln, was_saved, isRedo)), "Ok", w.n)
     ELSE IF w.res = "None" THEN Panic(r1, w.n)
     ELSE Ret(r1, w.res, w.n)

\* Record::jump_to: one redo or undo, of the command at the target
jump_to(r, target, n, f) ==
  IF target > len(r) THEN Ret(r, "None", n)
  ELSE IF target = r.cursor THEN Ret(r, "Ok", n)
  ELSE
  LET was_saved == is_saved(r)
      old == r.cursor
      ln == len(r)
      isRedo == target > r.cursor
      r0 == [r EXCEPT !.signal = FALSE,
                      !.cursor = IF isRedo THEN target - 1 ELSE target + 1]
      w == IF isRedo THEN redo(r0, n, f) ELSE undo(r0, n, f)
      r1 == [w.rec EXCEPT !.signal = r.signal]
  IN IF w.res = "Ok"
     THEN Ret(Emit(r1, Aggregate(r1, old, ln, was_saved, isRedo)), "Ok", w.n)
     \* self.redo().unwrap() and self.undo().unwrap() panic on None
     ELSE IF w.res = "None" THEN Panic(r1, w.n)
     ELSE Ret(r1, w.res, w.n)

\* ------------------------------------------------------------- Checkpoint
ActApply(v) ==
  [t |-> "Apply", v |-> v, cursor |-> 0]

ActUndo ==
  [t |-> "Undo", v |-> <<>>, cursor |-> 0]

ActRedo ==
  [t |-> "Redo", v |-> <<>>, cursor |-> 0]

ActGoTo(c) ==
  [t |-> "GoTo", v |-> <<>>, cursor |-> c]

\* VecDeque::truncate(n) keeps the first n elements, all of them if n > len
truncate(q, n) ==
  IF n < Len(q) THEN SubSeq(q, 1, n) ELSE q

\* cancel that replays the recorded actions in the order they were recorded
RECURSIVE cancel_oldest_first(_, _, _, _)
cancel_oldest_first(r, stack, n, f) ==
  IF stack = <<>> THEN Ret(r, "Ok", n)
  ELSE
  LET action == stack[1]
      rest == Tail(stack)
      s == CASE action.t = "Apply" -> undo(r, n, f)
             [] action.t = "Undo" -> redo(r, n, f)
             [] action.t = "Redo" -> undo(r, n, f)
             [] action.t = "GoTo" -> go_to(r, action.cursor, n, f)
  IN IF s.res \in {"Err", "Panic"} THEN s
     ELSE IF action.t = "Apply"
     THEN cancel_oldest_first(
            [s.rec EXCEPT !.commands = truncate(@, s.rec.cursor) \o action.v],
            rest, s.n, f)
     ELSE cancel_oldest_first(s.rec, rest, s.n, f)

\* Checkpoint::cancel: the recorded actions, the last one first
RECURSIVE cancel(_, _, _, _)
cancel(r, stack, n, f) ==
  IF stack = <<>> THEN Ret(r, "Ok", n)
  ELSE
  LET action == stack[Len(stack)]
      rest == SubSeq(stack, 1, Len(stack) - 1)
      s == CASE action.t = "Apply" -> undo(r, n, f)
             [] action.t = "Undo" -> redo(r, n, f)
             [] action.t = "Redo" -> undo(r, n, f)
             [] action.t = "GoTo" -> go_to(r, action.cursor, n, f)
  IN IF s.res \in {"Err", "Panic"} THEN s
     ELSE IF action.t = "Apply"
     THEN cancel([s.rec EXCEPT !.commands = truncate(@, s.rec.cursor) \o action.v],
                 rest, s.n, f)
     ELSE cancel(s.rec, rest, s.n, f)

\* ------------------------------------------------------------- Queue
QueuedApply(cmd) ==
  [t |-> "Apply", cmd |-> cmd, cursor |-> 0]

QueuedUndo ==
  [t |-> "Undo", cmd |-> <<>>, cursor |-> 0]

QueuedRedo ==
  [t |-> "Redo", cmd |-> <<>>, cursor |-> 0]

QueuedGoTo(c) ==
  [t |-> "GoTo", cmd |-> <<>>, cursor |-> c]

\* the call of the record that a staged action stands for
Call(r, action, n, f) ==
  CASE action.t = "Apply" -> __apply(r, action.cmd, n, f)
    [] action.t = "Undo" -> undo(r, n, f)
    [] action.t = "Redo" -> redo(r, n, f)
    [] action.t = "GoTo" -> go_to(r, action.cursor, n, f)

\* Queue::commit that goes on after an action has failed
RECURSIVE commit_through(_, _, _, _)
commit_through(r, queue, n, f) ==
  IF queue = <<>> THEN Ret(r, "Ok", n)
  ELSE
  LET s == Call(r, Head(queue), n, f)
  IN IF s.res = "Panic" THEN s
     ELSE commit_through(s.rec, Tail(queue), s.n, f)

\* Queue::commit that ends at the first action that does not apply
RECURSIVE commit_until_none(_, _, _, _)
commit_until_none(r, queue, n, f) ==
  IF queue = <<>> THEN Ret(r, "Ok", n)
  ELSE
  LET s == Call(r, Head(queue), n, f)
  IN IF s.res \in {"Err", "Panic"} THEN s
     ELSE IF s.res = "None" THEN Ret(s.rec, "Ok", s.n)
     ELSE commit_until_none(s.rec, Tail(queue), s.n, f)

\* Queue::commit: the staged actions, the first one first
RECURSIVE commit(_, _, _, _)
commit(r, queue, n, f) ==
  IF queue = <<>> THEN Ret(r, "Ok", n)
  ELSE
  LET s == Call(r, Head(queue), n, f)
  IN IF s.res \in {"Err", "Panic"} THEN s
     ELSE commit(s.rec, Tail(queue), s.n, f)

\* ------------------------------------------------------------- RedoStack
\* RedoStack::new and RedoStack::with_limit: lim is None or the limit
NewStack(lim) ==
  [stack |-> <<>>, idx |-> 0, limit |-> lim]

stack_is_clean(st) ==
  st.idx = Len(st.stack)

stack_is_dirty(st) ==
  ~stack_is_clean(st)

\* Vec::drain(..x): the vector without its first x elements
Drained(q, x) ==
  SubSeq(q, x + 1, Len(q))

\* `if let Some(ref mut f) = self.on_clean { f(); }` under the condition c
Call_on(c, name) ==
  IF c THEN <<name>> ELSE <<>>

\* RedoStack::push; fail says that the command's redo returns Err
stack_push(st, cmd, fail) ==
  LET is_dirty == stack_is_dirty(st)
      old == st.idx
      t == truncate(st.stack, old)
  IN IF fail THEN [st |-> [st EXCEPT !.stack = t], res |-> "Err", called |-> <<>>]
     ELSE IF t # <<>> /\ CmdMerges(t[Len(t)], cmd)
     THEN [st |-> [st EXCEPT !.stack = [t EXCEPT ![Len(t)] = CmdMerged(@, cmd)]],
           res |-> "Ok", called |-> Call_on(is_dirty, "on_clean")]
     ELSE IF st.limit # None /\ old = st.limit
     THEN LET x == (old \div 4) + 1
          IN [st |-> [st EXCEPT !.stack = Append(Drained(t, x), cmd),
                                !.idx = @ - (x - 1)],
              res |-> "Ok", called |-> Call_on(is_dirty, "on_clean")]
     ELSE [st |-> [st EXCEPT !.stack = Append(t, cmd), !.idx = @ + 1],
           res |-> "Ok", called |-> Call_on(is_dirty, "on_clean")]

\* RedoStack::redo; fail says that the command's redo returns Err
stack_redo(st, fail) ==
  IF st.idx < Len(st.stack)
  THEN IF fail THEN [st |-> st, res |-> "Err", called |-> <<>>]
       ELSE LET is_dirty == stack_is_dirty(st)
                st1 == [st EXCEPT !.idx = @ + 1]
            IN [st |-> st1, res |-> "Ok",
                called |-> Call_on(is_dirty /\ stack_is_clean(st1), "on_clean")]
  ELSE [st |-> st, res |-> "Ok", called |-> <<>>]

\* RedoStack::undo; fail says that the command's undo returns Err
stack_undo(st, fail) ==
  IF st.idx > 0
  THEN LET is_clean == stack_is_clean(st)
           st1 == [st EXCEPT !.idx = @ - 1]
       IN IF fail THEN [st |-> st1, res |-> "Err", called |-> <<>>]
          ELSE [st |-> st1, res |-> "Ok",
                called |-> Call_on(is_clean /\ stack_is_dirty(st1), "on_dirty")]
  ELSE [st |-> st, res |-> "Ok", called |-> <<>>]

\* ------------------------------------------------------------- RedoGroup
\* RedoGroup::new
NoGroup ==
  [stacks |-> <<>>, active |-> None, key |-> 0]

group_add(g, st) ==
  [g EXCEPT !.stacks = [k \in DOMAIN g.stacks \cup {g.key} |->
                          IF k = g.key THEN st ELSE g.stacks[k]],
            !.key = @ + 1]

clear_active(g) ==
  [g EXCEPT !.active = None]

group_remove(g, key) ==
  LET g1 == IF g.active # None /\ g.active = key THEN clear_active(g) ELSE g
  IN [g1 EXCEPT !.stacks = [k \in DOMAIN g.stacks \ {key} |-> g.stacks[k]]]

\* set_active that takes any id
set_active_unchecked(g, key) ==
  [g EXCEPT !.active = key]

set_active(g, key) ==
  IF key \in DOMAIN g.stacks THEN [g EXCEPT !.active = key] ELSE g

\* the group after a call forwarded to the stack of the key `to`
To(g, to, s) ==
  [g |-> [g EXCEPT !.stacks[to] = s.st], res |-> s.res]

group_is_clean(g) ==
  IF g.active = None THEN "None"
  ELSE IF stack_is_clean(g.stacks[g.active]) THEN "true" ELSE "false"

group_is_dirty(g) ==
  LET t == group_is_clean(g)
  IN IF t = "None" THEN "None" ELSE IF t = "true" THEN "false" ELSE "true"

\* push that goes to the stack added last when none is active
group_push_last(g, cmd, fail) ==
  IF g.active = None
  THEN IF g.key - 1 \in DOMAIN g.stacks
       THEN To(g, g.key - 1, stack_push(g.stacks[g.key - 1], cmd, fail))
       ELSE [g |-> g, res |-> "None"]
  ELSE To(g, g.active, stack_push(g.stacks[g.active], cmd, fail))

group_push(g, cmd, fail) ==
  IF g.active = None THEN [g |-> g, res |-> "None"]
  ELSE To(g, g.active, stack_push(g.stacks[g.active], cmd, fail))

group_redo(g, fail) ==
  IF g.active = None THEN [g |-> g, res |-> "None"]
  ELSE To(g, g.active, stack_redo(g.stacks[g.active], fail))

group_undo(g, fail) ==
  IF g.active = None THEN [g |-> g, res |-> "None"]
  ELSE To(g, g.active, stack_undo(g.stacks[g.active], fail))

\* ------------------------------------------------------------- History
\* History::default(): the root branch 0 is active, no other branch
NoHistory ==
  [root |-> 0, next |-> 1, branches |-> <<>>]

\* an inactive branch: the (branch, cursor) it leaves its parent at, and its
\* commands
Branch(b, c, cmds) ==
  [parent |-> [branch |-> b, cursor |-> c], commands |-> cmds]

\* what an operation on the History h leaves: the record, the result, the
\* calls made and the branches
HRet(h, s) ==
  [rec |-> s.rec, res |-> s.res, n |-> s.n, hist |-> h]

\* the History after branch `new` took over from the active branch at cursor
\* c: the commands the active branch had above c stay behind under its id,
\* rooted at (new, c), and the branches that left it at or below c now leave
\* new
Rooted(h, new, c, tail) ==
  LET old == h.root
  IN [root |-> new,
      next |-> IF new = h.next THEN h.next + 1 ELSE h.next,
      branches |->
        [k \in (DOMAIN h.branches \cup {old}) \ {new} |->
           IF k = old THEN Branch(new, c, tail)
           ELSE LET b == h.branches[k]
                IN IF b.parent.branch = old /\ b.parent.cursor <= c
                   THEN [b EXCEPT !.parent.branch = new]
                   ELSE b]]

\* History::root
history_root(h) ==
  h.root

\* History::__apply: Record's apply on the active branch; a discarded
\* redo-suffix is moved into a branch rooted at the divergence point, and the
\* branch with the new command becomes the active one
history___apply(h, r, cmd, n, f) ==
  LET at == r.cursor
      s == __apply(r, cmd, n, f)
  IN HRet(IF s.res = "Ok" /\ s.v # <<>> THEN Rooted(h, h.next, at, s.v) ELSE h, s)

\* History::undo and History::redo: as in Record, within the active branch
history_undo(h, r, n, f) ==
  HRet(h, undo(r, n, f))

history_redo(h, r, n, f) ==
  HRet(h, redo(r, n, f))

\* F(v), with v computed once
Bind(v, F(_)) ==
  CHOOSE y \in {F(x) : x \in {v}} : TRUE

\* the branch, reached at the cursor it leaves the active branch at, and the
\* active branch change places
ChangePlaces(h, g, branch) ==
  LET b == h.branches[branch]
      c == b.parent.cursor
      tail == SubSeq(g.rec.commands, c + 1, len(g.rec))
  IN HRet(Rooted(h, branch, c, tail),
          Ret([g.rec EXCEPT !.commands = SubSeq(@, 1, c) \o b.commands], "Ok", g.n))

\* the walk of go_to up to the point where `branch` is the active one: its
\* parent is made active first, the record walks to the cursor the branch
\* leaves its parent at, and the two branches change places there
RECURSIVE Switched(_, _, _, _, _)
Switched(h, r, branch, n, f) ==
  IF branch = h.root THEN HRet(h, Ret(r, "Ok", n))
  ELSE
  Bind(Switched(h, r, h.branches[branch].parent.branch, n, f),
       LAMBDA up :
         IF up.res # "Ok" THEN up
         ELSE Bind(go_to(up.rec, up.hist.branches[branch].parent.cursor, up.n, f),
                   LAMBDA g :
                     IF g.res # "Ok" THEN HRet(up.hist, g)
                     ELSE ChangePlaces(up.hist, g, branch)))

\* History::go_to(branch, cursor)
history_go_to(h, r, branch, target, n, f) ==
  IF branch # h.root /\ branch \notin DOMAIN h.branches
  THEN HRet(h, Ret(r, "None", n))
  ELSE Bind(Switched(h, r, branch, n, f),
            LAMBDA sw :
              IF sw.res # "Ok" THEN sw
              ELSE HRet(sw.hist, go_to(sw.rec, target, sw.n, f)))

\* Action::GoTo(branch, cursor) of a Checkpoint on a History
ActGoToAt(b, c) ==
  [t |-> "GoTo", branch |-> b, cursor |-> c]

\* Checkpoint<History>::cancel: the inverse of each recorded action, last
\* first; only Some(Err) stops it
RECURSIVE history_cancel(_, _, _, _, _)
history_cancel(h, r, stack, n, f) ==
  IF stack = <<>> THEN HRet(h, Ret(r, "Ok", n))
  ELSE
  LET action == stack[Len(stack)]
      rest == SubSeq(stack, 1, Len(stack) - 1)
  IN Bind(CASE action.t = "Undo" -> history_redo(h, r, n, f)
            [] action.t = "Redo" -> history_undo(h, r, n, f)
            [] action.t = "GoTo" ->
                 history_go_to(h, r, action.branch, action.cursor, n, f),
          LAMBDA s :
            IF s.res \in {"Err", "Panic"} THEN s
            ELSE history_cancel(s.hist, s.rec, rest, s.n, f))

\* ------------------------------------------------------------- actions
\* the record at the start of an operation: the slot has received nothing yet
Start ==
  [Rec EXCEPT !.emitted = <<>>]

\* what `last` keeps of the record before the operation
Pre(r) ==
  [can_undo |-> can_undo(r), can_redo |-> can_redo(r), is_saved |-> is_saved(r),
   cursor |-> r.cursor, signal |-> r.signal]

\* the log without the ghost flags
Texts(cmds) ==
  [i \in 1..Len(cmds) |-> cmds[i].s]

\* what a Checkpoint's ghost keeps of the record at its creation
Snap(r) ==
  [receiver |-> r.receiver, cursor |-> r.cursor, log |-> Texts(r.commands),
   saved |-> r.saved]

NoRun ==
  [pre |-> <<>>, u |-> 0]

NoLast ==
  [op |-> "new", arg |-> 0, res |-> "Ok", pre |-> Pre(Rec),
   unchanged |-> TRUE, again |-> FALSE]

\* the record becomes r (the texts stay within the bound)
Settles(r) ==
  /\ Len(r.receiver) <= MaxRecv
  /\ Len(r.commands) <= MaxLog
  /\ \A i \in 1..Len(r.commands) :
       StoresState(r.commands[i].s) \/ Len(r.commands[i].s) <= MaxRecv
  /\ commands' = r.commands
  /\ receiver' = r.receiver
  /\ cursor' = r.cursor
  /\ limit' = r.limit
  /\ saved' = r.saved
  /\ signal' = r.signal
  /\ emitted' = r.emitted
  /\ panicked' = r.panicked

\* the record becomes r; it is not in the RedoGroup and not in a History
Becomes(r) ==
  /\ Settles(r)
  /\ UNCHANGED <<group, history, redo_stack>>

\* ghost `last`: the operation's name, argument (for apply: the command and
\* the entries the call returned) and result, the record's observable state
\* before it, whether it left receiver, log, cursor and saved
\* marker as they were, and whether it repeats a successful go_to
Observed(r, op, arg, res) ==
  [op |-> op, arg |-> arg, res |-> res, pre |-> Pre(Rec),
   \* set_limit returns `self.limit`
   ret |-> IF op = "set_limit" THEN r.limit ELSE None,
   unchanged |-> /\ r.receiver = receiver
                 /\ r.commands = commands
                 /\ r.cursor = cursor
                 /\ r.saved = saved,
   again |-> op = "go_to" /\ last.op = "go_to" /\ last.res = "Ok"
             /\ last.arg = arg]

\* ghost `run`: a successful apply extends the run of applies (or starts one)
\* with the receiver and cursor before it and whether it advanced the cursor;
\* a successful undo after the applies is counted; anything else ends the run
Counted(r, op, res) ==
  IF op = "apply" /\ res = "Ok"
  THEN [pre |-> (IF run.u = 0 THEN run.pre ELSE <<>>)
                \o <<[receiver |-> receiver, cursor |-> cursor,
                      pure |-> r.cursor = cursor + 1]>>,
        u |-> 0]
  ELSE IF op = "undo" /\ res = "Ok" /\ run.u < Len(run.pre)
  THEN [run EXCEPT !.u = @ + 1]
  ELSE NoRun

\* ghost `run` of a record followed from its construction: the record is no
\* longer followed
Lost ==
  [pre |-> <<>>, u |-> -1]

\* ghost `run` of a record followed from its construction: the commands of the
\* successful applies made first (pre), then the number of successful undos
\* (u), then the number of successful redos (re); a call that returns None
\* changes nothing, after any other call the record is no longer followed
Followed(op, arg, res) ==
  IF res = "None" THEN run
  ELSE IF op = "apply" /\ res = "Ok" /\ run.u = 0
  THEN [pre |-> Append(run.pre, arg.cmd), u |-> 0, re |-> 0]
  ELSE IF op = "undo" /\ res = "Ok" /\ run.pre # <<>> /\ run.re = 0
  THEN [run EXCEPT !.u = @ + 1]
  ELSE IF op = "redo" /\ res = "Ok" /\ run.pre # <<>> /\ run.u >= 1
  THEN [run EXCEPT !.re = @ + 1]
  ELSE Lost

\* the ways the operations are observed: "sig" keeps `last` in full, "run"
\* keeps `run`, "seq" follows the record from its construction in `run`, "cp"
\* "seq", "fw", "q" and "go" keep the name and result of the operation
Ghost(m, r, op, arg, res) ==
  /\ last' = CASE m = "sig" -> Observed(r, op, arg, res)
               [] m = "run" -> last
               [] m \in {"cp", "seq", "fw", "q", "go"} -> [op |-> op, res |-> res]
  /\ run' = CASE m = "run" -> Counted(r, op, res)
              [] m = "seq" -> Followed(op, arg, res)
              [] OTHER -> run

Init ==
  /\ commands = <<>>
  /\ receiver = <<>>
  /\ cursor = 0
  /\ limit \in 1..MaxLimit
  /\ saved \in {0, None}
  /\ signal = FALSE
  /\ emitted = <<>>
  /\ panicked = FALSE
  /\ wrappers = <<>>
  /\ last = NoLast
  /\ run = NoRun
  /\ group = NoGroup
  /\ history = NoHistory
  /\ redo_stack = NewStack(None)

\* the outermost Checkpoint has been committed or cancelled; the model follows
\* a record up to this point
SessionOver ==
  wrappers = <<>> /\ last.op \in {"commit", "cancel", "q.commit", "q.cancel"}

\* the record is not borrowed by a wrapper (and the model still follows it)
Direct ==
  ~panicked /\ wrappers = <<>> /\ ~SessionOver /\ run.u >= 0

\* the calls of an operation's commands that may be chosen to fail, among the
\* first k: any (0: none) when the record is observed on its own; none in the
\* operations that prepare a record for a Checkpoint or a Queue
FailAt(m, k) ==
  IF m \in {"cp", "q"} THEN {0} ELSE 0..k

DoApply(m) ==
  /\ Direct
  /\ \E cmd \in Cmds, f \in FailAt(m, 1) :
       LET s == __apply(Start, cmd, 0, f)
       IN Becomes(s.rec)
          /\ Ghost(m, s.rec, "apply",
                   [cmd |-> cmd, v |-> s.v, merged |-> s.merged], s.res)
  /\ UNCHANGED wrappers

DoUndo(m) ==
  /\ Direct
  /\ \E f \in FailAt(m, 1) :
       LET s == undo(Start, 0, f)
       IN Becomes(s.rec) /\ Ghost(m, s.rec, "undo", 0, s.res)
  /\ UNCHANGED wrappers

DoRedo(m) ==
  /\ Direct
  /\ \E f \in FailAt(m, 1) :
       LET s == redo(Start, 0, f)
       IN Becomes(s.rec) /\ Ghost(m, s.rec, "redo", 0, s.res)
  /\ UNCHANGED wrappers

DoGoTo(m) ==
  /\ Direct
  /\ \E target \in 0..(MaxRecv + 1), f \in FailAt(m, MaxRecv) :
       LET s == go_to(Start, target, 0, f)
       IN Becomes(s.rec) /\ Ghost(m, s.rec, "go_to", target, s.res)
  /\ UNCHANGED wrappers

DoSetLimit(m) ==
  /\ Direct
  /\ \E n \in 1..MaxLimit :
       LET r == set_limit(Start, n)
       IN Becomes(r) /\ Ghost(m, r, "set_limit", n, "Ok")
  /\ UNCHANGED wrappers

DoSetSaved(m) ==
  /\ Direct
  /\ \E b \in BOOLEAN :
       LET r == set_saved(Start, b)
       IN Becomes(r) /\ Ghost(m, r, "set_saved", b, "Ok")
  /\ UNCHANGED wrappers

DoClear(m) ==
  /\ Direct
  /\ LET r == clear(Start) IN Becomes(r) /\ Ghost(m, r, "clear", 0, "Ok")
  /\ UNCHANGED wrappers

\* ---- the record used directly, its slot observed
Apply ==
  DoApply("sig")

Undo ==
  DoUndo("sig")

Redo ==
  DoRedo("sig")

GoTo ==
  DoGoTo("sig")

SetLimit ==
  DoSetLimit("sig")

SetSaved ==
  DoSetSaved("sig")

Clear ==
  DoClear("sig")

DoSetSignal(m) ==
  /\ Direct
  /\ ~signal
  /\ LET r == set_signal(Start)
     IN Becomes(r) /\ Ghost(m, r, "set_signal", 0, "Ok")
  /\ UNCHANGED wrappers

SetSignal ==
  DoSetSignal("sig")

Next ==
  \/ Apply
  \/ Undo
  \/ Redo
  \/ GoTo
  \/ SetLimit
  \/ SetSaved
  \/ Clear
  \/ SetSignal

Spec ==
  Init /\ [][Next]_vars

\* ---- the record used directly, runs of applies and undos counted
RunApply ==
  DoApply("run")

RunUndo ==
  DoUndo("run")

RunRedo ==
  DoRedo("run")

RunGoTo ==
  DoGoTo("run")

RunSetLimit ==
  DoSetLimit("run")

RunSetSaved ==
  DoSetSaved("run")

RunClear ==
  DoClear("run")

NextRun ==
  \/ RunApply
  \/ RunUndo
  \/ RunRedo
  \/ RunGoTo
  \/ RunSetLimit
  \/ RunSetSaved
  \/ RunClear

SpecRun ==
  Init /\ [][NextRun]_vars

\* ---- a record followed from its construction through applies, undos, redos
SeqApply ==
  DoApply("seq")

SeqUndo ==
  DoUndo("seq")

SeqRedo ==
  DoRedo("seq")

NextSeq ==
  \/ SeqApply
  \/ SeqUndo
  \/ SeqRedo

SpecSeq ==
  Init /\ [][NextSeq]_vars

\* ---- the record used directly and through Checkpoints
CpDirectApply ==
  DoApply("cp")

CpDirectUndo ==
  DoUndo("cp")

CpDirectRedo ==
  DoRedo("cp")

CpDirectSetSaved ==
  DoSetSaved("cp")

\* the innermost open Checkpoint: the only one the borrow rules let be used
Top ==
  wrappers[Len(wrappers)]

\* the open Checkpoints after a call forwarded through the innermost one: a
\* successful call pushes `action` on its stack; ghost `ok` notes whether all
\* its calls so far were successful, ghost `calls` counts for each open
\* Checkpoint the calls forwarded since its creation
Forwarded(res, action) ==
  [i \in 1..Len(wrappers) |->
     LET w == [wrappers[i] EXCEPT !.calls = @ + 1]
     IN IF i < Len(wrappers) THEN w
        ELSE IF res = "Ok" THEN [w EXCEPT !.stack = Append(@, action)]
        ELSE [w EXCEPT !.ok = FALSE]]

\* a call can be forwarded through the innermost open Checkpoint
Through ==
  ~panicked /\ wrappers # <<>> /\ wrappers[1].calls < MaxStack

\* the most command calls a cancel can be made to fail at
MaxCalls ==
  MaxStack * MaxRecv

\* Record::checkpoint and Checkpoint::checkpoint: both borrow the record itself
Checkpoint ==
  /\ ~panicked
  /\ ~SessionOver
  /\ Len(wrappers) < MaxDepth
  /\ wrappers' = Append([i \in 1..Len(wrappers) |-> [wrappers[i] EXCEPT !.plain = FALSE]],
                        [stack |-> <<>>, snap |-> Snap(Rec), calls |-> 0,
                         ok |-> TRUE, plain |-> TRUE, committed |-> FALSE,
                         undone |-> TRUE])
  /\ Becomes(Start)
  /\ last' = [op |-> "checkpoint", res |-> "Ok"]
  /\ UNCHANGED run

CpApply ==
  /\ Through
  /\ \E cmd \in Cmds, f \in 0..1 :
       LET s == __apply(Start, cmd, 0, f)
       IN /\ Becomes(s.rec)
          /\ wrappers' = Forwarded(s.res, ActApply(s.v))
          /\ last' = [op |-> "cp.apply", res |-> s.res]
  /\ UNCHANGED run

CpUndo ==
  /\ Through
  /\ \E f \in 0..1 :
       LET s == undo(Start, 0, f)
       IN /\ Becomes(s.rec)
          /\ wrappers' = Forwarded(s.res, ActUndo)
          /\ last' = [op |-> "cp.undo", res |-> s.res]
  /\ UNCHANGED run

CpRedo ==
  /\ Through
  /\ \E f \in 0..1 :
       LET s == redo(Start, 0, f)
       IN /\ Becomes(s.rec)
          /\ wrappers' = Forwarded(s.res, ActRedo)
          /\ last' = [op |-> "cp.redo", res |-> s.res]
  /\ UNCHANGED run

CpGoTo ==
  /\ Through
  /\ \E target \in 0..(MaxRecv + 1), f \in 0..MaxRecv :
       LET old == cursor
           s == go_to(Start, target, 0, f)
       IN /\ Becomes(s.rec)
          /\ wrappers' = Forwarded(s.res, ActGoTo(old))
          /\ last' = [op |-> "cp.go_to", res |-> s.res]
  /\ UNCHANGED run

\* the open Checkpoints after the innermost one is consumed: ghost `committed`
\* of the one it was created from notes that a Checkpoint nested in it was
\* committed after successful calls, ghost `undone` that every Checkpoint
\* nested in it was cancelled successfully after successful calls
Closed(how, res) ==
  [i \in 1..(Len(wrappers) - 1) |->
     IF i < Len(wrappers) - 1 THEN wrappers[i]
     ELSE [wrappers[i] EXCEPT
             !.committed = @ \/ (how = "commit" /\ Top.ok
                                 /\ (Top.stack # <<>> \/ Top.committed)),
             !.undone = @ /\ how = "cancel" /\ res = "Ok"
                          /\ Top.ok /\ Top.undone]]

CpCommit ==
  /\ ~panicked
  /\ wrappers # <<>>
  /\ wrappers' = Closed("commit", "Ok")
  /\ Becomes(Start)
  /\ last' = [op |-> "commit", res |-> "Ok"]
  /\ UNCHANGED run

\* ghost `last` keeps the state at the Checkpoint's creation, whether all
\* calls forwarded through it were successful (ok), whether no other
\* Checkpoint was created from it (plain), what became of those created from
\* it (committed, undone) and how deep it was nested
CpCancel ==
  /\ ~panicked
  /\ wrappers # <<>>
  /\ \E f \in 0..MaxCalls :
       LET s == cancel(Start, Top.stack, 0, f)
       IN /\ Becomes(s.rec)
          /\ last' = [op |-> "cancel", res |-> s.res, snap |-> Top.snap,
                      ok |-> Top.ok, plain |-> Top.plain,
                      committed |-> Top.committed, undone |-> Top.undone,
                      depth |-> Len(wrappers)]
          /\ wrappers' = Closed("cancel", s.res)
  /\ UNCHANGED run

NextCp ==
  \/ CpDirectApply
  \/ CpDirectUndo
  \/ CpDirectRedo
  \/ CpDirectSetSaved
  \/ Checkpoint
  \/ CpApply
  \/ CpUndo
  \/ CpRedo
  \/ CpGoTo
  \/ CpCommit
  \/ CpCancel

SpecCp ==
  Init /\ [][NextCp]_vars

\* ---- a record used directly, then through one Checkpoint that is cancelled
\* Record::checkpoint on a record that is not borrowed
FirstCheckpoint ==
  wrappers = <<>> /\ Checkpoint

\* Checkpoint::cancel; ghost `last` keeps the stack that was replayed, the call
\* chosen to fail and the number of calls of commands made
UnCancel ==
  /\ ~panicked
  /\ wrappers # <<>>
  /\ \E f \in 0..MaxCalls :
       LET s == cancel(Start, Top.stack, 0, f)
       IN /\ f <= s.n
          /\ Becomes(s.rec)
          /\ last' = [op |-> "cancel", res |-> s.res, stack |-> Top.stack,
                      f |-> f, n |-> s.n]
  /\ wrappers' = <<>>
  /\ UNCHANGED run

NextUn ==
  \/ CpDirectApply
  \/ CpDirectUndo
  \/ FirstCheckpoint
  \/ CpApply
  \/ CpUndo
  \/ CpRedo
  \/ CpGoTo
  \/ UnCancel

SpecUn ==
  Init /\ [][NextUn]_vars

\* ---- the record used directly and through Checkpoints that are committed
FwDirectApply ==
  DoApply("fw")

FwDirectUndo ==
  DoUndo("fw")

FwDirectSetSignal ==
  DoSetSignal("fw")

\* FwForwarded that records the action of a failed call too
FwForwarded_always(res, action) ==
  [i \in 1..Len(wrappers) |->
     LET w == [wrappers[i] EXCEPT !.calls = @ + 1]
     IN IF i = Len(wrappers)
        THEN [w EXCEPT !.stack = Append(@, action)]
        ELSE w]

\* the open Checkpoints after a call forwarded through the innermost one: a
\* successful call pushes `action` on its stack; ghost `calls` counts for each
\* open Checkpoint the calls forwarded since its creation
FwForwarded(res, action) ==
  [i \in 1..Len(wrappers) |->
     LET w == [wrappers[i] EXCEPT !.calls = @ + 1]
     IN IF i = Len(wrappers) /\ res = "Ok"
        THEN [w EXCEPT !.stack = Append(@, action)]
        ELSE w]

\* a call can be forwarded through the innermost open Checkpoint
FwThrough ==
  ~panicked /\ wrappers # <<>> /\ wrappers[1].calls < MaxFw

\* Record::checkpoint and Checkpoint::checkpoint: both borrow the record itself
FwCheckpoint ==
  /\ ~panicked
  /\ ~SessionOver
  /\ Len(wrappers) < MaxDepth
  /\ wrappers' = Append(wrappers, [stack |-> <<>>, calls |-> 0])
  /\ Becomes(Start)
  /\ last' = [op |-> "checkpoint", res |-> "Ok"]
  /\ UNCHANGED run

FwApply ==
  /\ FwThrough
  /\ \E cmd \in Cmds, f \in 0..1 :
       LET s == __apply(Start, cmd, 0, f)
       IN /\ Becomes(s.rec)
          /\ wrappers' = FwForwarded(s.res, ActApply(s.v))
          /\ last' = [op |-> "cp.apply", res |-> s.res]
  /\ UNCHANGED run

FwUndo ==
  /\ FwThrough
  /\ \E f \in 0..1 :
       LET s == undo(Start, 0, f)
       IN /\ Becomes(s.rec)
          /\ wrappers' = FwForwarded(s.res, ActUndo)
          /\ last' = [op |-> "cp.undo", res |-> s.res]
  /\ UNCHANGED run

FwRedo ==
  /\ FwThrough
  /\ \E f \in 0..1 :
       LET s == redo(Start, 0, f)
       IN /\ Becomes(s.rec)
          /\ wrappers' = FwForwarded(s.res, ActRedo)
          /\ last' = [op |-> "cp.redo", res |-> s.res]
  /\ UNCHANGED run

FwGoTo ==
  /\ FwThrough
  /\ \E target \in 0..(MaxRecv + 1), f \in 0..MaxRecv :
       LET old == cursor
           s == go_to(Start, target, 0, f)
       IN /\ Becomes(s.rec)
          /\ wrappers' = FwForwarded(s.res, ActGoTo(old))
          /\ last' = [op |-> "cp.go_to", res |-> s.res]
  /\ UNCHANGED run

\* commit that rolls the Checkpoint's actions back
FwCommit_cancelling ==
  /\ ~panicked
  /\ wrappers # <<>>
  /\ LET s == cancel(Start, Top.stack, 0, 0)
     IN Becomes(s.rec)
  /\ wrappers' = SubSeq(wrappers, 1, Len(wrappers) - 1)
  /\ last' = [op |-> "commit", res |-> "Ok", depth |-> Len(wrappers),
              calls |-> Top.calls]
  /\ UNCHANGED run

\* ghost `last` keeps how deep the committed Checkpoint was nested and how
\* many calls were forwarded while it was open
FwCommit ==
  /\ ~panicked
  /\ wrappers # <<>>
  /\ wrappers' = SubSeq(wrappers, 1, Len(wrappers) - 1)
  /\ Becomes(Start)
  /\ last' = [op |-> "commit", res |-> "Ok", depth |-> Len(wrappers),
              calls |-> Top.calls]
  /\ UNCHANGED run

NextFw ==
  \/ FwDirectApply
  \/ FwDirectUndo
  \/ FwDirectSetSignal
  \/ FwCheckpoint
  \/ FwApply
  \/ FwUndo
  \/ FwRedo
  \/ FwGoTo
  \/ FwCommit

SpecFw ==
  Init /\ [][NextFw]_vars

\* ---- the record used directly and through a Queue
QDirectApply ==
  DoApply("q")

QDirectUndo ==
  DoUndo("q")

QDirectSetSignal ==
  DoSetSignal("q")

\* Record::queue: the Queue borrows the record, nothing is staged
NewQueue ==
  /\ Direct
  /\ wrappers' = <<[queue |-> <<>>]>>
  /\ Becomes(Start)
  /\ last' = [op |-> "queue", res |-> "Ok"]
  /\ UNCHANGED run

\* an action can be staged
Staging ==
  ~panicked /\ wrappers # <<>> /\ Len(Top.queue) < MaxQueue

\* Staged that makes the call at once
Staged_eager(op, action) ==
  /\ wrappers' = <<[queue |-> Append(Top.queue, action)]>>
  /\ last' = [op |-> op, res |-> "Ok"]
  /\ Becomes(Call(Start, action, 0, 0).rec)
  /\ UNCHANGED run

\* the Queue after `action` is staged; the record is not touched
Staged(op, action) ==
  /\ wrappers' = <<[queue |-> Append(Top.queue, action)]>>
  /\ last' = [op |-> op, res |-> "Ok"]
  /\ UNCHANGED <<commands, receiver, cursor, limit, saved, signal, emitted,
                 panicked, run, group, history, redo_stack>>

QApply ==
  /\ Staging
  /\ \E cmd \in Cmds : Staged("q.apply", QueuedApply(cmd))

QUndo ==
  /\ Staging
  /\ Staged("q.undo", QueuedUndo)

QRedo ==
  /\ Staging
  /\ Staged("q.redo", QueuedRedo)

QGoTo ==
  /\ Staging
  /\ \E target \in 0..(MaxRecv + 1) : Staged("q.go_to", QueuedGoTo(target))

\* ghost `last` keeps the staged actions and the command call made to fail,
\* which is one of the calls that are made
QCommit ==
  /\ ~panicked
  /\ wrappers # <<>>
  /\ \E f \in 0..(MaxQueue * MaxRecv) :
       LET s == commit(Start, Top.queue, 0, f)
       IN /\ f <= s.n
          /\ Becomes(s.rec)
          /\ last' = [op |-> "q.commit", res |-> s.res, queue |-> Top.queue,
                      f |-> f]
  /\ wrappers' = <<>>
  /\ UNCHANGED run

\* ghost `last` keeps the number of staged actions
QCancel ==
  /\ ~panicked
  /\ wrappers # <<>>
  /\ wrappers' = <<>>
  /\ Becomes(Start)
  /\ last' = [op |-> "q.cancel", res |-> "Ok", staged |-> Len(Top.queue)]
  /\ UNCHANGED run

NextQ ==
  \/ QDirectApply
  \/ QDirectUndo
  \/ QDirectSetSignal
  \/ NewQueue
  \/ QApply
  \/ QUndo
  \/ QRedo
  \/ QGoTo
  \/ QCommit
  \/ QCancel

SpecQ ==
  Init /\ [][NextQ]_vars

\* ---- the record used directly, the calls of go_to and jump_to counted
GoApply ==
  DoApply("go")

GoUndo ==
  DoUndo("go")

GoRedo ==
  DoRedo("go")

GoSetSignal ==
  DoSetSignal("go")

\* ghost `last` keeps the target and the number of calls of commands made
GoGoTo ==
  /\ Direct
  /\ \E target \in 0..(MaxRecv + 1), f \in 0..MaxRecv :
       LET s == go_to(Start, target, 0, f)
       IN /\ f <= s.n
          /\ Becomes(s.rec)
          /\ last' = [op |-> "go_to", arg |-> target, res |-> s.res, n |-> s.n]
  /\ UNCHANGED <<wrappers, run>>

\* ghost `last` keeps the target and the number of calls of commands made
GoJumpTo ==
  /\ Direct
  /\ \E target \in 0..(MaxRecv + 1), f \in 0..1 :
       LET s == jump_to(Start, target, 0, f)
       IN /\ f <= s.n
          /\ Becomes(s.rec)
          /\ last' = [op |-> "jump_to", arg |-> target, res |-> s.res, n |-> s.n]
  /\ UNCHANGED <<wrappers, run>>

NextGo ==
  \/ GoApply
  \/ GoUndo
  \/ GoRedo
  \/ GoSetSignal
  \/ GoGoTo
  \/ GoJumpTo

SpecGo ==
  Init /\ [][NextGo]_vars

\* the same with commands that store the whole state of the receiver
JumpApply ==
  /\ Direct
  /\ \E cmd \in JumpCmds, f \in 0..1 :
       LET s == __apply(Start, cmd, 0, f)
       IN Becomes(s.rec)
          /\ Ghost("go", s.rec, "apply",
                   [cmd |-> cmd, v |-> s.v, merged |-> s.merged], s.res)
  /\ UNCHANGED wrappers

NextJump ==
  \/ JumpApply
  \/ GoUndo
  \/ GoRedo
  \/ GoSetSignal
  \/ GoGoTo
  \/ GoJumpTo

SpecJump ==
  Init /\ [][NextJump]_vars

\* the same without jump_to, which is meant for commands that store the whole
\* state of the receiver
NextWalk ==
  \/ GoApply
  \/ GoUndo
  \/ GoRedo
  \/ GoSetSignal
  \/ GoGoTo

SpecWalk ==
  Init /\ [][NextWalk]_vars

\* ---- a RedoGroup of RedoStacks
RECURSIVE Chars_in(_)
\* the number of characters of the commands of the stack q
Chars_in(q) ==
  IF q = <<>> THEN 0 ELSE Len(Head(q)) + Chars_in(Tail(q))

RECURSIVE Held(_, _)
\* the number of characters of the commands of the stacks with the keys ks
Held(g, ks) ==
  IF ks = {} THEN 0
  ELSE LET k == CHOOSE x \in ks : TRUE
       IN Chars_in(g.stacks[k].stack) + Held(g, ks \ {k})

\* the group becomes g (the stacks hold no more than MaxRecv characters in
\* all); the record is not touched
GroupSettles(g) ==
  /\ Held(g, DOMAIN g.stacks) <= MaxRecv
  /\ group' = g
  /\ UNCHANGED <<commands, receiver, cursor, limit, saved, signal, emitted,
                 panicked, wrappers, run, history, redo_stack>>

\* ghost `last` keeps the name and the result of the call
GroupBecomes(op, g, res) ==
  /\ GroupSettles(g)
  /\ last' = [op |-> op, res |-> res]

GAdd ==
  /\ group.key < MaxKeys
  /\ \E lim \in {None} \cup 1..MaxLimit :
       GroupBecomes("g.add", group_add(group, NewStack(lim)), "Ok")

\* ghost `last` keeps the id as well
GRemove ==
  \E key \in 0..(MaxKeys - 1) :
    /\ GroupSettles(group_remove(group, key))
    /\ last' = [op |-> "g.remove", arg |-> key,
                res |-> IF key \in DOMAIN group.stacks THEN "Some" ELSE "None"]

\* ghost `last` keeps the id as well
GSetActive ==
  \E key \in 0..(MaxKeys - 1) :
    /\ GroupSettles(set_active(group, key))
    /\ last' = [op |-> "g.set_active", arg |-> key, res |-> "Ok"]

GClearActive ==
  GroupBecomes("g.clear_active", clear_active(group), "Ok")

GIsClean ==
  GroupBecomes("g.is_clean", group, group_is_clean(group))

GIsDirty ==
  GroupBecomes("g.is_dirty", group, group_is_dirty(group))

GPush ==
  \E cmd \in Cmds, fail \in BOOLEAN :
    LET s == group_push(group, cmd, fail)
    IN GroupBecomes("g.push", s.g, s.res)

GRedo ==
  \E fail \in BOOLEAN :
    LET s == group_redo(group, fail)
    IN GroupBecomes("g.redo", s.g, s.res)

GUndo ==
  \E fail \in BOOLEAN :
    LET s == group_undo(group, fail)
    IN GroupBecomes("g.undo", s.g, s.res)

NextG ==
  \/ GAdd
  \/ GRemove
  \/ GSetActive
  \/ GClearActive
  \/ GIsClean
  \/ GIsDirty
  \/ GPush
  \/ GRedo
  \/ GUndo

\* ---- a RedoStack on its own
\* the stack becomes what the call left (it holds no more than MaxRecv
\* characters); the callbacks it invoked are in `emitted`
StackBecomes(op, s) ==
  /\ Chars_in(s.st.stack) <= MaxRecv
  /\ redo_stack' = s.st
  /\ emitted' = s.called
  /\ last' = [op |-> op, res |-> s.res]
  /\ UNCHANGED <<commands, receiver, cursor, limit, saved, signal, panicked,
                 wrappers, run, group, history>>

\* RedoStack::with_limit
StWithLimit ==
  /\ redo_stack = NewStack(None)
  /\ \E lim \in 1..MaxLimit :
       StackBecomes("st.with_limit",
                    [st |-> NewStack(lim), res |-> "Ok", called |-> <<>>])

StPush ==
  \E cmd \in Cmds, fail \in BOOLEAN :
    StackBecomes("st.push", stack_push(redo_stack, cmd, fail))

StRedo ==
  \E fail \in BOOLEAN :
    StackBecomes("st.redo", stack_redo(redo_stack, fail))

StUndo ==
  \E fail \in BOOLEAN :
    StackBecomes("st.undo", stack_undo(redo_stack, fail))

NextSt ==
  \/ StWithLimit
  \/ StPush
  \/ StRedo
  \/ StUndo

\* the stack is new; the record beside it is Record::default() and is not used
InitSt ==
  Init /\ limit = 1 /\ saved = 0

SpecSt ==
  InitSt /\ [][NextSt]_vars

\* the group is new; the record beside it is Record::default() and is not used
InitG ==
  Init /\ limit = 1 /\ saved = 0

SpecG ==
  InitG /\ [][NextG]_vars

\* ---- a History, used directly and through one Checkpoint
\* the History becomes what the operation left
HistoryBecomes(s) ==
  /\ Settles(s.rec)
  /\ \A k \in DOMAIN s.hist.branches : Len(s.hist.branches[k].commands) <= MaxLog
  /\ history' = s.hist
  /\ UNCHANGED <<group, run, redo_stack>>

HApply ==
  /\ Direct
  /\ history.next < MaxBranch
  /\ \E cmd \in Cmds :
       LET s == history___apply(history, Start, cmd, 0, 0)
       IN HistoryBecomes(s) /\ last' = [op |-> "h.apply", res |-> s.res]
  /\ UNCHANGED wrappers

HUndo ==
  /\ Direct
  /\ LET s == history_undo(history, Start, 0, 0)
     IN HistoryBecomes(s) /\ last' = [op |-> "h.undo", res |-> s.res]
  /\ UNCHANGED wrappers

\* History::checkpoint; ghost fields of the Checkpoint: the record and the
\* root at its creation, and whether each call forwarded so far was a
\* successful apply made with the cursor below the tip (below)
HCheckpoint ==
  /\ Direct
  /\ wrappers' = <<[stack |-> <<>>, snap |-> Snap(Rec), root |-> history.root,
                    below |-> TRUE]>>
  /\ Becomes(Start)
  /\ last' = [op |-> "h.checkpoint", res |-> "Ok"]
  /\ UNCHANGED run

HThrough ==
  ~panicked /\ wrappers # <<>> /\ Len(Top.stack) < MaxStack

\* the Checkpoint after a forwarded call: the action is recorded iff the
\* call was successful
HForwarded(res, action, below) ==
  <<[Top EXCEPT !.stack = IF res = "Ok" THEN Append(@, action) ELSE @,
                !.below = @ /\ res = "Ok" /\ below]>>

HCpApply ==
  /\ HThrough
  /\ history.next < MaxBranch
  /\ \E cmd \in Cmds :
       LET root == history_root(history)
           old == cursor
           s == history___apply(history, Start, cmd, 0, 0)
       IN /\ HistoryBecomes(s)
          /\ wrappers' = HForwarded(s.res, ActGoToAt(root, old),
                                    cursor < Len(commands))
          /\ last' = [op |-> "hcp.apply", res |-> s.res, cmd |-> cmd]

HCpUndo ==
  /\ HThrough
  /\ LET s == history_undo(history, Start, 0, 0)
     IN /\ HistoryBecomes(s)
        /\ wrappers' = HForwarded(s.res, ActUndo, FALSE)
        /\ last' = [op |-> "hcp.undo", res |-> s.res]

HCpCancel ==
  /\ ~panicked
  /\ wrappers # <<>>
  /\ \E f \in 0..1 :
       LET s == history_cancel(history, Start, Top.stack, 0, f)
       IN /\ HistoryBecomes(s)
          /\ last' = [op |-> "cancel", res |-> s.res, snap |-> Top.snap,
                      root |-> Top.root, below |-> Top.below /\ Top.stack # <<>>]
          /\ wrappers' = <<>>

NextH ==
  \/ HApply
  \/ HUndo
  \/ HCheckpoint
  \/ HCpApply
  \/ HCpUndo
  \/ HCpCancel

\* History::default(): nothing saved; the limit is not reached (MaxLimit
\* applied entries fill the receiver)
InitH ==
  Init /\ limit = MaxLimit /\ saved = None

SpecH ==
  InitH /\ [][NextH]_vars

\* ------------------------------------------------------------- claims
Range(q) ==
  {q[i] : i \in 1..Len(q)}

\* the operations of a Record that can change what the slot is told about
RecordOps ==
  {"apply", "undo", "redo", "go_to", "set_limit", "set_saved", "clear"}

\* C1: in every reachable state of a Record, also after operations whose
\* command returned an error, 0 <= cursor <= len(commands).
CursorWithinLog ==
  0 <= cursor /\ cursor <= Len(commands)

\* C2: in every reachable state every entry below the cursor is a command
\* whose effect is applied, and every entry at or above the cursor is a
\* command that has been undone.
AppliedPrefix ==
  \A i \in 1..Len(commands) : commands[i].on <=> i <= cursor

\* C4: in every reachable state the saved marker is None or Some(s) with
\* 0 <= s <= len(commands).
SavedWithinLog ==
  saved = None \/ (0 <= saved /\ saved <= Len(commands))

\* the entry of `run` for the first of the applies that the undos counted so
\* far are to take back
RunBase ==
  run.pre[Len(run.pre) - run.u + 1]

\* C7 as stated: after k successful applies followed by k successful undos
\* the receiver and the cursor have the values they had before the first of
\* these applies, whatever the applies merged or evicted.
ApplyUndoRestores ==
  run.u >= 1 => receiver = RunBase.receiver /\ cursor = RunBase.cursor

\* each of the last run.u applies advanced the cursor by one: it was neither
\* merged into the previous entry nor did it evict the oldest entry
RunPure ==
  \A i \in (Len(run.pre) - run.u + 1)..Len(run.pre) : run.pre[i].pure

\* C7 amended: after k successful applies each of which advanced the cursor
\* by one (none merged into the previous entry, none evicting the oldest
\* entry at the limit), followed by k successful undos, the receiver and the
\* cursor have the values they had before the first of these applies.
ApplyUndoRestoresPure ==
  (run.u >= 1 /\ RunPure) => receiver = RunBase.receiver /\ cursor = RunBase.cursor

\* two applies that advanced the cursor have been taken back by two undos,
\* and both entries can be redone
ApplyUndoRestoresPureSeen ==
  run.u = 2 /\ RunPure /\ Len(run.pre) >= 2 /\ Len(commands) = cursor + 2

\* C8: a signal Undo(b), Redo(b) or Saved(b) received during an operation
\* tells of a change: can_undo(), can_redo() or is_saved() was not b before
\* the operation and is b after it.
NoSpuriousSignal ==
  last.op \in RecordOps =>
    \A i \in 1..Len(emitted) :
      LET sig == emitted[i]
      IN /\ sig.t = "Undo" => (last.pre.can_undo # sig.b /\ can_undo(Rec) = sig.b)
         /\ sig.t = "Redo" => (last.pre.can_redo # sig.b /\ can_redo(Rec) = sig.b)
         /\ sig.t = "Saved" => (last.pre.is_saved # sig.b /\ is_saved(Rec) = sig.b)

\* C9: an operation on a record with a connected slot that changes
\* can_undo(), can_redo() or is_saved() delivers the matching signal with the
\* new value during that operation.
NoMissedSignal ==
  (last.op \in RecordOps /\ last.pre.signal /\ ~panicked) =>
    /\ last.pre.can_undo # can_undo(Rec) => SigUndo(can_undo(Rec)) \in Range(emitted)
    /\ last.pre.can_redo # can_redo(Rec) => SigRedo(can_redo(Rec)) \in Range(emitted)
    /\ last.pre.is_saved # is_saved(Rec) => SigSaved(is_saved(Rec)) \in Range(emitted)

\* C10: a go_to(c) that follows a successful go_to(c) returns Some(Ok(())),
\* leaves receiver, log, cursor and saved marker as they are and delivers no
\* signal to the slot.
GoToIdempotent ==
  (last.op = "go_to" /\ last.again) =>
    last.res = "Ok" /\ last.unchanged /\ emitted = <<>>

\* C3: len(commands) <= limit in every reachable state, for operations made
\* directly on the record or through Checkpoints, nested ones included.
LenWithinLimit ==
  Len(commands) <= limit

\* a cancel has just returned Ok, of a Checkpoint through which only
\* successful calls were made and from which no other Checkpoint was created
Cancelled ==
  last.op = "cancel" /\ last.res = "Ok" /\ last.ok /\ last.plain

\* C5: after a successful cancel of a Checkpoint through which N successful
\* calls were made, receiver and cursor have the values they had when the
\* Checkpoint was created.
CancelRestores ==
  Cancelled => receiver = last.snap.receiver /\ cursor = last.snap.cursor

\* C6: after a successful cancel the sequence of log entries equals the
\* sequence at the moment the Checkpoint was created.
CancelRestoresLog ==
  Cancelled => Texts(commands) = last.snap.log

Max(a, b) ==
  IF a > b THEN a ELSE b

\* C11 as stated: the state after set_limit(n) satisfies
\* cursor <= len <= max(n, cursor).
SetLimitBound ==
  last.op = "set_limit" =>
    cursor <= Len(commands) /\ Len(commands) <= Max(last.arg, cursor)

\* C11 amended: set_limit(n) removes only entries below the cursor, so
\* len - cursor is the same before and after the call (cursor <= len is kept),
\* and afterwards len <= max(n, len - cursor): the log is longer than n only
\* when nothing is left to undo.
SetLimitKeepsTail ==
  [][last'.op = "set_limit" =>
       /\ Len(commands') - cursor' = Len(commands) - cursor
       /\ Len(commands') <= Max(last'.arg, Len(commands') - cursor')]_vars

\* a set_limit has removed entries below the cursor and kept the active one
SetLimitKeepsTailSeen ==
  last.op = "set_limit" /\ last.pre.cursor > cursor /\ cursor >= 1

\* the log q without its entry number k (counted from 1), the others in order
Without(q, k) ==
  [i \in 1..(Len(q) - 1) |-> IF i < k THEN q[i] ELSE q[i + 1]]

\* the step from the unprimed to the primed state removed the log's entry
\* number k and nothing else, and left the cursor where it was
RemovedOnly(k) ==
  /\ cursor' = cursor
  /\ Len(commands') = Len(commands) - 1
  /\ commands' = Without(commands, k)

\* C16: an undo (a redo) whose command returns an error removes exactly the
\* entry at index cursor-1 (at index cursor) from the log, leaves the cursor
\* where it was and the other entries in their order: len decreases by one.
FailedStepRemovesEntry ==
  [][((last'.op = "undo" /\ last'.res = "Err") => RemovedOnly(cursor))
     /\ ((last'.op = "redo" /\ last'.res = "Err") => RemovedOnly(cursor + 1))]_vars

\* a redo has failed on a record with an applied entry, which is still there
FailedStepRemovesEntrySeen ==
  last.op = "redo" /\ last.res = "Err" /\ cursor >= 1 /\ Len(commands) >= 1

\* C12: a successful apply on a record with cursor < len discards the whole
\* redo-suffix: the length after it is at most cursor-before + 1, every entry
\* but the last is an entry that was below cursor-before (in the same order,
\* the oldest possibly gone), the last one carries the applied command, and
\* the call returns the entries from cursor-before on in their log order.
ApplyDiscardsSuffix ==
  [][(last'.op = "apply" /\ last'.res = "Ok" /\ cursor < Len(commands)) =>
       /\ Len(commands') <= cursor + 1
       /\ \E d \in {0, 1} :
            \A i \in 1..(Len(commands') - 1) :
              i + d <= cursor /\ commands'[i] = commands[i + d]
       /\ LET new == commands'[Len(commands')].s
              cmd == last'.arg.cmd
          IN SubSeq(new, Len(new) - Len(cmd) + 1, Len(new)) = cmd
       /\ last'.arg.v = SubSeq(commands, cursor + 1, Len(commands))]_vars

\* an apply has discarded and returned two different redoable entries
ApplyDiscardsSuffixSeen ==
  /\ last.op = "apply" /\ last.res = "Ok"
  /\ Len(last.arg.v) = 2 /\ last.arg.v[1] # last.arg.v[2]

\* no command of q is merged into the one before it
NeverMerging(q) ==
  \A i \in 1..(Len(q) - 1) : ~CmdMerges(q[i], q[i + 1])

\* k >= limit commands that do not merge have been applied to a fresh record
\* (and some of them may have been undone since)
AppliedToLimit ==
  run.pre # <<>> /\ Len(run.pre) >= limit /\ NeverMerging(run.pre) /\ run.re = 0

RECURSIVE Flat(_)
Flat(q) ==
  IF q = <<>> THEN <<>> ELSE Head(q) \o Flat(Tail(q))

\* k >= 1 commands whose merge absorbs the incoming command have been applied
\* to a fresh record
AppliedMerging ==
  run.pre # <<>> /\ \A i \in 1..Len(run.pre) : Head(run.pre[i]) = "b"

\* C14: on a fresh record, k >= 1 successful applies of commands whose merge
\* always absorbs the incoming command leave one log entry with cursor = 1; a
\* single undo restores the receiver's initial value, and a single redo the
\* value it had after the k applies.
MergedIsOneEntry ==
  AppliedMerging =>
    /\ run.u = 0 => (Len(commands) = 1 /\ cursor = 1 /\ receiver = Flat(run.pre))
    /\ run.u <= 1
    /\ (run.u = 1 /\ run.re = 0) => receiver = <<>>
    /\ run.re <= 1
    /\ (run.u = 1 /\ run.re = 1) => receiver = Flat(run.pre)

\* two merging commands were applied to a fresh saved record, undone in one
\* step and redone in one step
MergedIsOneEntrySeen ==
  AppliedMerging /\ Len(run.pre) = 2 /\ run.u = 1 /\ run.re = 1 /\ saved = 0

\* the action stacks of the open Checkpoints, outermost first
Stacks ==
  [i \in 1..Len(wrappers) |-> wrappers[i].stack]

\* C15: when the command's apply returns an error, Record::apply returns the
\* error and leaves the log, cursor, saved marker and limit unchanged and emits
\* no signal (so the redo-suffix is not discarded); through a Checkpoint no
\* action is recorded for the failed apply.
FailedApplyChangesNothing ==
  [][(last'.op \in {"apply", "cp.apply"} /\ last'.res = "Err") =>
       /\ UNCHANGED <<commands, cursor, saved, limit>>
       /\ emitted' = <<>>
       /\ Stacks' = Stacks]_vars

\* an apply forwarded through a Checkpoint has failed on a record with a
\* signal slot and a redo-suffix
FailedApplyChangesNothingSeen ==
  /\ last.op = "cp.apply" /\ last.res = "Err"
  /\ signal /\ cursor < Len(commands) /\ wrappers # <<>>

\* C17: Checkpoint::commit changes nothing: receiver, log, cursor and saved
\* marker of the record after commit are those left by the forwarded calls,
\* also for nested checkpoints committed innermost first.
CommitChangesNothing ==
  [][last'.op = "commit" =>
       UNCHANGED <<receiver, commands, cursor, saved>>]_vars

\* the outer of two nested Checkpoints has been committed after the inner one,
\* with calls forwarded while they were open
CommitChangesNothingSeen ==
  /\ last.op = "commit" /\ last.depth = 1 /\ last.calls >= 1
  /\ wrappers = <<>> /\ commands # <<>>

\* C18: if operations are performed through an inner checkpoint and the inner
\* checkpoint is committed, a successful cancel of the outer checkpoint
\* restores the receiver and cursor to their values at the moment the outer
\* checkpoint was created.
OuterCancelRestores ==
  (last.op = "cancel" /\ last.res = "Ok" /\ last.ok /\ last.committed) =>
    receiver = last.snap.receiver /\ cursor = last.snap.cursor

\* C19: a successful cancel of an inner checkpoint returns the receiver and
\* cursor to their values at the moment the inner checkpoint was created, and
\* a successful cancel of the enclosing checkpoint afterwards to their values
\* at the moment that one was created.
InnerCancelRestores ==
  (last.op = "cancel" /\ last.res = "Ok" /\ last.ok /\ last.undone
   /\ (last.depth >= 2 \/ ~last.plain)) =>
    receiver = last.snap.receiver /\ cursor = last.snap.cursor

\* the result of the first k of the calls `queue` made one after the other on
\* the record r, none made after one that failed; at counts the calls made
RECURSIVE Directly(_, _, _, _)
Directly(r, queue, k, f) ==
  IF k = 0 THEN [rec |-> r, res |-> "Ok", n |-> 0, at |-> 0]
  ELSE
  LET before == Directly(r, queue, k - 1, f)
      s == Call(before.rec, queue[k], before.n, f)
  IN IF before.res \in {"Err", "Panic"} THEN before
     ELSE [rec |-> s.rec, n |-> s.n, at |-> k,
           res |-> IF s.res \in {"Err", "Panic"} THEN s.res ELSE "Ok"]

\* C20: Queue::commit on a Record leaves the receiver, log and cursor that
\* the same calls made directly on the record in staging order leave; at the
\* first action whose command returns an error it returns the error, the
\* earlier actions stay applied and the later ones are not executed.
CommitAsDirectCalls ==
  [][last'.op = "q.commit" =>
       LET direct == Directly(Start, last'.queue, Len(last'.queue), last'.f)
       IN /\ receiver' = direct.rec.receiver
          /\ commands' = direct.rec.commands
          /\ cursor' = direct.rec.cursor
          /\ last'.res = direct.res]_vars

\* a commit of two staged actions has returned the error of the second one and
\* the first one's command is in the receiver
CommitAsDirectCallsSeen ==
  /\ last.op = "q.commit" /\ last.res = "Err"
  /\ Len(last.queue) = 2 /\ last.queue[1].t = "Apply" /\ last.f = 2
  /\ receiver # <<>> /\ receiver[Len(receiver)] = last.queue[1].cmd[1]

\* C21: staging actions on a Queue and Queue::cancel leave the wrapped Record
\* unchanged: receiver, log, cursor and saved marker stay as they were when
\* the queue was created, and no signal is emitted.
StagingChangesNothing ==
  [][last'.op \in {"q.apply", "q.undo", "q.redo", "q.go_to", "q.cancel"} =>
       /\ UNCHANGED <<receiver, commands, cursor, saved>>
       /\ emitted' = <<>>]_vars

\* a Queue with two staged actions has been cancelled on a record with a
\* signal slot, an applied command and a redo-suffix
StagingChangesNothingSeen ==
  /\ last.op = "q.cancel" /\ last.staged = 2
  /\ signal /\ 0 < cursor /\ cursor < Len(commands)

\* C22: RedoGroup forwards push, undo, redo and is_clean/is_dirty to the
\* active stack only: with no active stack each returns None and no stack is
\* modified; with an active stack every other stack keeps its commands and
\* index.
ForwardsToActiveOnly ==
  [][last'.op \in {"g.push", "g.undo", "g.redo", "g.is_clean", "g.is_dirty"} =>
       /\ DOMAIN group'.stacks = DOMAIN group.stacks
       /\ group.active = None =>
            (last'.res = "None" /\ group'.stacks = group.stacks)
       /\ group.active # None =>
            /\ last'.res # "None"
            /\ \A k \in DOMAIN group.stacks \ {group.active} :
                 group'.stacks[k] = group.stacks[k]]_vars

\* a push has returned None on a group that has lost its active stack and
\* still holds a stack with a command
ForwardsToActiveOnlySeen ==
  /\ last.op = "g.push" /\ last.res = "None"
  /\ group.key = 2
  /\ \E k \in DOMAIN group.stacks : group.stacks[k].idx = 1

\* C23: go_to(target) and jump_to(target) with target > len return None, leave
\* the receiver, log, cursor and saved marker unchanged and emit no signal.
BeyondLogIsNone ==
  [][(last'.op \in {"go_to", "jump_to"} /\ last'.arg > Len(commands)) =>
       /\ last'.res = "None"
       /\ UNCHANGED <<receiver, commands, cursor, saved>>
       /\ emitted' = <<>>]_vars

\* jump_to(len + 1) has returned None on a record with a signal slot, a
\* non-empty log and a redo-suffix
BeyondLogIsNoneSeen ==
  /\ last.op = "jump_to" /\ last.arg = Len(commands) + 1 /\ last.res = "None"
  /\ signal /\ cursor < Len(commands)

\* the text q ends with the text t
EndsWith(q, t) ==
  Len(t) <= Len(q) /\ SubSeq(q, Len(q) - Len(t) + 1, Len(q)) = t

Abs(x) ==
  IF x < 0 THEN -x ELSE x

\* C24: for every Record state and every target <= len, a go_to(target) in
\* which every step succeeds returns Ok, ends with cursor = target and len
\* unchanged, has invoked exactly |target - cursor_before| commands, and the
\* receiver is the result of the first `target` log entries applied in order
\* (to the receiver the log started from).
GoToReaches ==
  [][(last'.op = "go_to" /\ last'.res = "Ok") =>
       /\ cursor' = last'.arg
       /\ Len(commands') = Len(commands)
       /\ last'.n = Abs(last'.arg - cursor)
       /\ EndsWith(receiver', Flat(SubSeq(Texts(commands'), 1, last'.arg)))]_vars

ApplyLeavesUnsaved ==
  (last.op = "apply" /\ last.res = "Ok") =>
    /\ ~is_saved(Rec)
    /\ SigSaved(TRUE) \notin Range(emitted)
    /\ SigSaved(FALSE) \in Range(emitted) <=> (last.pre.signal /\ last.pre.is_saved)

\* C26 witness: an apply on a saved record at its limit evicted the oldest
\* entry and told the slot that the record is no longer saved.
ApplyLeavesUnsavedSeen ==
  /\ last.op = "apply" /\ last.res = "Ok"
  /\ last.pre.is_saved /\ last.pre.signal
  /\ cursor = last.pre.cursor /\ cursor > 0
  /\ SigSaved(FALSE) \in Range(emitted)

\* go_to(c) called on the record r, all its commands succeeding, ends with the
\* receiver rcv and in the saved state
BackAtSaved(r, c, rcv) ==
  LET back == go_to(r, c, 0, 0)
  IN /\ back.res = "Ok"
     /\ back.rec.receiver = rcv
     /\ is_saved(back.rec)

\* C27: a successful apply on a record in its saved state does not merge: the
\* command is the new last entry of the log, the saved cursor is the position
\* just below it, and go_to(saved cursor) brings the receiver back to what it
\* was before the apply, with is_saved() true again; an apply merges only when
\* the record is not in its saved state and the log below the cursor is not
\* empty.
NoMergeAcrossSaved ==
  [][(last'.op = "apply" /\ last'.res = "Ok") =>
       (/\ is_saved(Rec) =>
             (/\ ~last'.arg.merged
              /\ cursor' = Len(commands') /\ cursor' > 0
              /\ commands'[cursor'].s = last'.arg.cmd
              /\ saved' = cursor' - 1
              /\ BackAtSaved(Rec', saved', receiver))
        /\ last'.arg.merged => (~is_saved(Rec) /\ cursor > 0))]_vars

\* C27 witness: a command that merges with the last entry was applied to a
\* saved record and sits in the log as an entry of its own.
NoMergeAcrossSavedSeen ==
  /\ last.op = "apply" /\ last.res = "Ok" /\ last.pre.is_saved
  /\ cursor >= 2 /\ cursor = Len(commands)
  /\ commands[cursor].s = "b" /\ commands[cursor - 1].s = "b"
  /\ saved = cursor - 1

\* the signals of type t among the emitted ones
Of(t) ==
  {i \in DOMAIN emitted : emitted[i].t = t}

\* C30: go_to delivers nothing for its intermediate undo/redo steps: the slot
\* receives at most one signal of each type, nothing when go_to does not
\* return Some(Ok), and after a successful go_to that moved the cursor exactly
\* one Cursor{old, new} with old the cursor before the call and new the
\* target; the slot is connected after the call iff it was before.
GoToSignalsOnce ==
  (last.op = "go_to" /\ ~panicked) =>
    /\ signal = last.pre.signal
    /\ \A t \in {"Cursor", "Undo", "Redo", "Saved"} : Cardinality(Of(t)) <= 1
    /\ \A i \in Of("Cursor") : emitted[i] = SigCursor(last.pre.cursor, last.arg)
    /\ last.res # "Ok" => emitted = <<>>
    /\ (last.res = "Ok" /\ last.pre.signal /\ last.pre.cursor # last.arg)
         => Of("Cursor") # {}

\* C30 witness: a go_to over two entries has told the connected slot of one
\* cursor change, from where it started to its target.
GoToSignalsOnceSeen ==
  /\ last.op = "go_to" /\ last.res = "Ok" /\ last.pre.signal /\ signal
  /\ last.pre.cursor = 0 /\ last.arg = 2 /\ cursor = 2
  /\ SigCursor(0, 2) \in Range(emitted)

\* the apply just made left the redo-suffix it discarded in a branch rooted
\* at the divergence point, and the active branch ends with the new command
SuffixBranched ==
  /\ history'.root \notin DOMAIN history'.branches
  /\ \E k \in DOMAIN history'.branches :
       history'.branches[k] =
         Branch(history'.root, cursor, SubSeq(commands, cursor + 1, Len(commands)))
  /\ cursor' = Len(commands') /\ cursor' > 0
  /\ EndsWith(commands'[cursor'].s, last'.cmd)

\* the cancel just made left receiver, cursor, log and root as they were when
\* the Checkpoint was created
BackBeforeApply ==
  /\ receiver' = last'.snap.receiver
  /\ cursor' = last'.snap.cursor
  /\ Texts(commands') = last'.snap.log
  /\ history'.root = last'.root

\* C29: an apply on a History made with the cursor below the tip of the
\* active branch keeps the discarded redo-suffix as a branch rooted at the
\* divergence point and makes the branch with the new command the active one;
\* when the apply was made through a Checkpoint, the go_to(root, cursor) that
\* cancel replays brings back the state before the apply.
DivergedApplyLosesNothing ==
  [][/\ (last'.op = "hcp.apply" /\ last'.res = "Ok" /\ cursor < Len(commands))
          => SuffixBranched
     /\ (last'.op = "cancel" /\ last'.res = "Ok" /\ last'.below)
          => BackBeforeApply]_vars

\* the go_to just made stopped after k successful steps at the step that
\* failed: the cursor is k steps from where it was and short of the target,
\* and the log lost the entry of the failed step and no other
StoppedAfter(k) ==
  /\ Len(commands') = Len(commands) - 1
  /\ IF last'.arg < cursor
     THEN /\ cursor' = cursor - k /\ cursor' > last'.arg
          /\ Texts(commands') = Without(Texts(commands), cursor')
     ELSE /\ cursor' = cursor + k /\ cursor' < last'.arg
          /\ Texts(commands') = Without(Texts(commands), cursor' + 1)

\* C31: a go_to one of whose steps fails returns the error after that step
\* and makes no further call: the cursor is where the successful steps
\* brought it, the failing entry is removed from the log, and the slot is
\* connected iff it was before the call.
FailedGoToStops ==
  [][(last'.op = "go_to" /\ last'.res = "Err") =>
       (StoppedAfter(last'.n - 1) /\ signal' = signal)]_vars

\* C31 witness: a go_to on a record with a connected slot failed at its
\* second step.
FailedGoToStopsSeen ==
  /\ last.op = "go_to" /\ last.res = "Err" /\ last.n = 2
  /\ signal /\ cursor = 1 /\ last.arg = 0

\* the inverse of one recorded action, made on the record r
Inverse(r, action, n, f) ==
  CASE action.t = "Apply" ->
         LET s == undo(r, n, f)
         IN IF s.res \in {"Err", "Panic"} THEN s
            ELSE [s EXCEPT !.rec.commands = truncate(@, s.rec.cursor) \o action.v]
    [] action.t = "Undo" -> redo(r, n, f)
    [] action.t = "Redo" -> undo(r, n, f)
    [] action.t = "GoTo" -> go_to(r, action.cursor, n, f)

\* the record r after the inverses of stack[Len(stack)], ..., stack[i] were
\* made in this order, none made after one that returned an error
RECURSIVE Unwound(_, _, _, _)
Unwound(r, stack, i, f) ==
  IF i > Len(stack) THEN Ret(r, "Ok", 0)
  ELSE Bind(Unwound(r, stack, i + 1, f),
            LAMBDA later :
              IF later.res \in {"Err", "Panic"} THEN later
              ELSE Inverse(later.rec, stack[i], later.n, f))

\* C32: Checkpoint::cancel makes the inverses of its recorded actions from the
\* last recorded to the first; when an inverse returns an error, cancel
\* returns it and makes none of the inverses of the older actions, and the
\* record is as the inverses made so far left it.
CancelUnwinds ==
  [][last'.op = "cancel" =>
       LET u == Unwound(Start, last'.stack, 1, last'.f)
       IN /\ receiver' = u.rec.receiver
          /\ commands' = u.rec.commands
          /\ cursor' = u.rec.cursor
          /\ saved' = u.rec.saved
          /\ last'.n = u.n
          /\ last'.res = (IF u.res \in {"Err", "Panic"} THEN u.res ELSE "Ok")]_vars

\* C32 witness: a cancel of two recorded actions of different kinds made the
\* inverse of the last one and returned the error of the inverse of the first.
CancelUnwindsSeen ==
  /\ last.op = "cancel" /\ last.res = "Err"
  /\ Len(last.stack) = 2 /\ last.stack[1].t # last.stack[2].t
  /\ last.f = 2 /\ last.n = 2

\* the saved marker after the oldest entry has been evicted: it denotes the
\* same receiver state, or nothing when that state lay before the evicted entry
Evicted(s) ==
  IF s = None \/ s = 0 THEN None ELSE s - 1

\* a successful apply has just pushed its command onto a log at its limit
PushedAtLimit ==
  /\ last'.op = "apply" /\ last'.res = "Ok" /\ ~last'.arg.merged
  /\ cursor = limit

\* C33: when a successful, non-merged apply finds the log at its limit, the
\* oldest entry is evicted, cursor and len both stay equal to limit, and the
\* saved marker keeps denoting the same receiver state: Some(s) with s >= 1
\* becomes Some(s - 1), and Some(0) becomes None.
ApplyAtLimitEvicts ==
  [][PushedAtLimit =>
       (/\ cursor' = limit' /\ Len(commands') = limit' /\ limit' = limit
        /\ Texts(commands') = Tail(Texts(commands)) \o <<last'.arg.cmd>>
        /\ saved' = Evicted(saved))]_vars

\* the number of oldest entries that set_limit(n) is said to remove
Begin(n) ==
  IF cursor < Len(commands) - n THEN cursor ELSE Len(commands) - n

\* what set_limit(n) is said to do to a log longer than n
Shortened(n) ==
  /\ commands' = SubSeq(commands, Begin(n) + 1, Len(commands))
  /\ \A i \in (cursor + 1)..Len(commands) : commands'[i - Begin(n)] = commands[i]
  /\ cursor' = cursor - Begin(n)
  /\ saved' = (IF saved = None \/ saved < Begin(n) THEN None ELSE saved - Begin(n))
  /\ limit' = Len(commands')
  /\ limit' = Max(n, Len(commands) - cursor)

\* C34: set_limit(n) with n >= 1 returns the new value of limit(): if
\* n >= len the log, cursor and saved marker are unchanged and limit() == n;
\* if n < len exactly begin = min(cursor, len - n) oldest entries are removed,
\* cursor decreases by begin, saved becomes Some(s - begin) or None when
\* s < begin, no entry at index >= cursor is removed, and limit() is set to
\* the resulting len = max(n, len_before - cursor_before), which can exceed n.
SetLimitReturnsLimit ==
  [][last'.op = "set_limit" =>
       (/\ last'.ret = limit'
        /\ IF last'.arg >= Len(commands)
           THEN /\ commands' = commands /\ cursor' = cursor /\ saved' = saved
                /\ limit' = last'.arg
           ELSE Shortened(last'.arg))]_vars

\* C34 witness: set_limit(n) on a log longer than n with nothing to undo
\* removed nothing and returned a limit above n.
SetLimitReturnsLimitSeen ==
  /\ last.op = "set_limit" /\ last.ret > last.arg
  /\ limit = Len(commands) /\ cursor = 0

\* C35: for commands that store the whole receiver state, a jump_to(c) with
\* c <= len that succeeds ends in the same cursor and the same receiver as
\* go_to(c), none of its commands failing, from the same state, while invoking
\* at most one command: redo of entry c-1 when c > cursor, undo of entry c
\* when c < cursor, and nothing (returning Some(Ok(())) with no signal) when
\* c == cursor.
JumpLikeWalk ==
  [][(last'.op = "jump_to" /\ last'.arg <= Len(commands) /\ last'.res = "Ok") =>
       LET c == last'.arg
           walked == go_to(Start, c, 0, 0)
       IN /\ cursor' = walked.rec.cursor /\ receiver' = walked.rec.receiver
          /\ cursor' = c
          /\ c > cursor => (last'.n = 1 /\ receiver' = CmdRedo(commands[c].s, receiver))
          /\ c < cursor => (last'.n = 1 /\ receiver' = CmdUndo(commands[c + 1].s, receiver))
          /\ c = cursor => (last'.n = 0 /\ emitted' = <<>> /\ receiver' = receiver)]_vars

\* the last call was a push, undo or redo on the RedoStack
StackCalled ==
  last'.op \in {"st.push", "st.undo", "st.redo"}

\* C36: RedoStack state callbacks are edge-triggered: over any sequence of
\* push, undo and redo calls (succeeding or failing), on_clean is invoked
\* exactly when a call takes the stack from dirty (idx < len) to clean
\* (idx == len) and on_dirty exactly when a call takes it from clean to dirty;
\* a call that leaves the state unchanged invokes neither, and the first push
\* on an empty stack invokes neither.
CallbacksOnEdges ==
  [][StackCalled =>
       (/\ emitted' = <<"on_clean">> <=>
             (stack_is_dirty(redo_stack) /\ stack_is_clean(redo_stack'))
        /\ emitted' = <<"on_dirty">> <=>
             (stack_is_clean(redo_stack) /\ stack_is_dirty(redo_stack'))
        /\ emitted' \in {<<>>, <<"on_clean">>, <<"on_dirty">>})]_vars

\* C38: a failed RedoStack::undo leaves the stack position unchanged, like a
\* failed RedoStack::redo does: idx has the same value as before the call.
FailedUndoKeepsIdx ==
  [][(last'.op \in {"st.undo", "st.redo"} /\ last'.res = "Err") =>
       redo_stack'.idx = redo_stack.idx]_vars

\* the keys of the stacks in the group
Keys(g) ==
  DOMAIN g.stacks

\* what add, remove and set_active are said to do to the keys
KeysKept ==
  /\ last'.op = "g.add" =>
        (/\ group.key \notin Keys(group)
         /\ Keys(group') = Keys(group) \cup {group.key}
         /\ group'.key > group.key
         /\ group'.active = group.active)
  /\ last'.op = "g.remove" =>
        (/\ Keys(group') = Keys(group) \ {last'.arg}
         /\ group'.key = group.key
         /\ group'.active = (IF group.active = last'.arg THEN None ELSE group.active))
  /\ last'.op = "g.set_active" =>
        (/\ Keys(group') = Keys(group)
         /\ group'.active = (IF last'.arg \in Keys(group) THEN last'.arg
                             ELSE group.active))
  /\ last'.op = "g.clear_active" => group'.active = None

CancelRestoresSaved ==
  Cancelled => saved = last.snap.saved

\* the staged action can be carried out on the record r: there is something
\* to undo, something to redo, or the target is within the log
Applicable(r, action) ==
  CASE action.t = "Apply" -> TRUE
    [] action.t = "Undo" -> r.cursor > 0
    [] action.t = "Redo" -> r.cursor < Len(r.commands)
    [] action.t = "GoTo" -> action.cursor <= Len(r.commands)

\* the staged actions made one after the other on the record r, those that
\* cannot be carried out when they are reached left out, none made after one
\* that failed
RECURSIVE Skipping(_, _, _, _)
Skipping(r, queue, n, f) ==
  IF queue = <<>> THEN Ret(r, "Ok", n)
  ELSE IF ~Applicable(r, Head(queue)) THEN Skipping(r, Tail(queue), n, f)
  ELSE Bind(Call(r, Head(queue), n, f),
            LAMBDA s : IF s.res \in {"Err", "Panic"} THEN s
                       ELSE Skipping(s.rec, Tail(queue), s.n, f))

\* C40: in Queue::commit a staged undo, redo or go_to that is not applicable
\* when it is reached is skipped without error and without changing the
\* record, and commit continues with the following staged actions and can
\* still return Ok(()).
CommitSkipsNone ==
  [][last'.op = "q.commit" =>
       LET kept == Skipping(Start, last'.queue, 0, last'.f)
       IN /\ receiver' = kept.rec.receiver
          /\ commands' = kept.rec.commands
          /\ cursor' = kept.rec.cursor
          /\ saved' = kept.rec.saved
          /\ emitted' = kept.rec.emitted
          /\ last'.res = (IF kept.res \in {"Err", "Panic"} THEN kept.res ELSE "Ok")]_vars

\* C40 witness: a commit has skipped a staged redo with nothing to redo,
\* made the apply staged after it and returned Ok.
CommitSkipsNoneSeen ==
  /\ last.op = "q.commit" /\ last.res = "Ok"
  /\ Len(last.queue) = 2 /\ last.queue[1].t = "Redo" /\ last.queue[2].t = "Apply"
  /\ receiver = last.queue[2].cmd

====
